---------------------------- MODULE Spec2Model ----------------------------
(***************************************************************************)
(* Bar-driven simulation of GaussianKijunStrategy (src/app/strategies.py)  *)
(* under the backtrader engine as run_backtest (src/app/backtest.py) sets  *)
(* it up: one data feed, a broker with zero commission and no              *)
(* cheat-on-close, and the TradeLogger analyzer.                           *)
(*                                                                         *)
(* Per bar the engine (cerebro) does, in this order:                       *)
(*   1. the feed advances to the bar and the broker tries every pending    *)
(*      order against it (a market order fills at the bar's open, a limit  *)
(*      order when the bar reaches its price);                             *)
(*   2. every trade opened or closed by those fills is notified, first to  *)
(*      the strategy (notify_trade) and then to the analyzers;             *)
(*   3. the strategy's next() runs on the bar.                             *)
(*                                                                         *)
(* Prices are integers (multiples of 4, so that 0.75 R, 0.5 R are exact    *)
(* and 0.4 R is compared by cross-multiplication); NaN and None are        *)
(* encoded as two negative integers no price can take.                     *)
(***************************************************************************)
EXTENDS Integers, Sequences, FiniteSets, TLC

\* ------------------------------------------------------------------ bounds
MaxBars == 4        \* bars fed to one run
MaxDays == 2        \* distinct trading dates among them

\* ------------------------------------------------- encodings of NaN / None
NaN == -1000        \* float('nan'): every comparison with it is false
None == -2000       \* Python None (Optional[float] fields, self.today)

IsNaN(x) == x = NaN
Gt(a, b) == ~IsNaN(a) /\ ~IsNaN(b) /\ a > b
Lt(a, b) == ~IsNaN(a) /\ ~IsNaN(b) /\ a < b
Ge(a, b) == ~IsNaN(a) /\ ~IsNaN(b) /\ a >= b
Le(a, b) == ~IsNaN(a) /\ ~IsNaN(b) /\ a <= b
Max(a, b) == IF a >= b THEN a ELSE b
Min(a, b) == IF a <= b THEN a ELSE b
Abs(x) == IF x < 0 THEN -x ELSE x
\* Python truthiness of an Optional[float]: None and 0.0 are falsy
Truthy(x) == x # None /\ x # 0

\* ---------------------------------------------------- TradingConfig values
\* The configuration of the run (config.trading), scaled to the price grid.
min_bars == 2
adx_threshold == 25
trailing_atr_mult == 3
tp_r_multiple_pct == 75         \* tp_r_multiple = 0.75
risk_pct_permille == 9          \* risk_pct = 0.009
contract_multiplier == 1
starting_equity == 2000

\* the sizing policy and the daily cap vary between runs
Configs ==
    { [fixed_position_size |-> 64, max_trades_per_day |-> 2,
       contract_multiplier |-> contract_multiplier],
      [fixed_position_size |-> 0, max_trades_per_day |-> 1,
       contract_multiplier |-> contract_multiplier] }

\* ------------------------------------------------------------- risk sizer
Raise == -3000      \* the call raises (ZeroDivisionError) instead of returning

\* risk_amount = equity * risk_pct is a product of doubles, and the double
\* risk_pct = 0.009 lies below 9/1000.  For these equities (of SizerEquities)
\* the rounded product lies below the exact 9 * equity / 1000, e.g.
\* 100000.0 * 0.009 = 899.9999999999999; for the others of the model it is
\* the exact value or the quotient below is no whole number.
RiskAmountBelow == {3000, 100000}

\* floor(risk_amount / denom) in doubles: where the exact quotient is a whole
\* number and risk_amount lies below its exact value, the double quotient
\* lies below that number and floors to one less
floor_quotient(equity, permille, denom) ==
    LET exact == equity * permille
    IN  IF exact % (1000 * denom) = 0 /\ equity \in RiskAmountBelow
        THEN exact \div (1000 * denom) - 1
        ELSE exact \div (1000 * denom)

\* calculate_size: floor(equity * risk_pct / (|entry - stop| * multiplier))
calculate_size(equity, permille, multiplier, entry, stop) ==
    LET distance == Abs(entry - stop)
    IN  IF distance <= 0 THEN 0
        ELSE IF distance * multiplier = 0 THEN Raise
        ELSE Max(0, floor_quotient(equity, permille, distance * multiplier))

\* variant of _determine_size: the risk-based size whenever it is above 0
determine_size_risk_first(c, equity, entry, stop) ==
    LET risk == calculate_size(equity, risk_pct_permille, c.contract_multiplier,
                               entry, stop)
    IN  IF risk > 0 THEN risk
        ELSE IF c.fixed_position_size > 0 /\ entry # 0
             THEN Max(1, c.fixed_position_size \div entry)
             ELSE risk

\* _determine_size: fixed USD size when configured, else risk-based size
determine_size(c, equity, entry, stop) ==
    IF c.fixed_position_size > 0
    THEN IF entry = 0 THEN Raise
         ELSE Max(1, c.fixed_position_size \div entry)
    ELSE calculate_size(equity, risk_pct_permille, c.contract_multiplier, entry, stop)

\* ----------------------------------------------------------------- orders
\* An order as the broker holds it: size is signed (buy > 0, sell < 0),
\* price is the limit price of a Limit order and the creation price (the
\* close of the deciding bar) of a Market order.  tag and reason are not
\* fields of the program's order: tag records which statement of the
\* strategy created it, and reason the close_reason set with a close order.
Order(exectype, size, price, tag) ==
    [exectype |-> exectype, size |-> size, price |-> price, tag |-> tag,
     reason |-> ""]

\* Strategy.close(): a market order for the whole current position
CloseOrder(possize, close, reason) ==
    [Order("Market", -possize, close, "close") EXCEPT !.reason = reason]

\* ------------------------------------------------------ strategy: entries
StrategyInit ==
    [ today |-> None, trades_today |-> 0,
      entry_price |-> None, stop_price |-> None, initial_atr |-> None,
      entry_risk |-> None, tp_price |-> None, breakeven_active |-> FALSE,
      highest_since_entry |-> None, lowest_since_entry |-> None,
      close_reason |-> "", entry_order |-> <<>>, exit_order |-> <<>> ]

\* variant of enter_long with the short side's 0.5 R target
enter_long_half_r(s, close, size, stop, atr) ==
    [s EXCEPT !.entry_order = <<Order("Market", size, close, "entry")>>,
              !.entry_price = close,
              !.stop_price = stop,
              !.initial_atr = atr,
              !.entry_risk = close - stop,
              !.tp_price = close + (close - stop) \div 2,
              !.breakeven_active = FALSE,
              !.highest_since_entry = close,
              !.trades_today = s.trades_today + 1]

enter_long(s, close, size, stop, atr) ==
    [s EXCEPT !.entry_order = <<Order("Market", size, close, "entry")>>,
              !.entry_price = close,
              !.stop_price = stop,
              !.initial_atr = atr,
              !.entry_risk = close - stop,
              !.tp_price = close + (tp_r_multiple_pct * (close - stop)) \div 100,
              !.breakeven_active = FALSE,
              !.highest_since_entry = close,
              !.trades_today = s.trades_today + 1]

enter_short(s, close, size, stop, atr) ==
    [s EXCEPT !.entry_order = <<Order("Market", -size, close, "entry")>>,
              !.entry_price = close,
              !.stop_price = stop,
              !.initial_atr = atr,
              !.entry_risk = stop - close,
              !.tp_price = close - (stop - close) \div 2,
              !.breakeven_active = FALSE,
              !.lowest_since_entry = close,
              !.trades_today = s.trades_today + 1]

\* ------------------------------------------- strategy: position management
\* The steps of _update_position_management work on r = [strat, orders]:
\* the strategy's fields and the orders submitted so far on this bar.

\* variant of breakeven_long that raises the flag but leaves the stop alone
breakeven_long_flag_only(s, close) ==
    IF 10 * close >= 10 * s.entry_price + 4 * s.entry_risk /\ ~s.breakeven_active
    THEN [s EXCEPT !.breakeven_active = TRUE]
    ELSE s

\* breakeven at +0.4 R (long): close >= entry_price + 0.4 * entry_risk
breakeven_long(s, close) ==
    IF 10 * close >= 10 * s.entry_price + 4 * s.entry_risk /\ ~s.breakeven_active
    THEN [s EXCEPT !.stop_price = s.entry_price, !.breakeven_active = TRUE]
    ELSE s

\* breakeven at -0.4 R (short)
breakeven_short(s, close) ==
    IF 10 * close <= 10 * s.entry_price - 4 * s.entry_risk /\ ~s.breakeven_active
    THEN [s EXCEPT !.stop_price = s.entry_price, !.breakeven_active = TRUE]
    ELSE s

\* trailing stop (long): highest_since_entry - initial_atr * trailing_atr_mult
trailing_long(s) ==
    IF s.initial_atr = None THEN s
    ELSE LET trail_stop == IF IsNaN(s.initial_atr) THEN NaN
                           ELSE s.highest_since_entry - s.initial_atr * trailing_atr_mult
         IN  IF Gt(trail_stop, s.stop_price)
             THEN [s EXCEPT !.stop_price = trail_stop] ELSE s

\* trailing stop (short): lowest_since_entry + initial_atr * trailing_atr_mult
trailing_short(s) ==
    IF s.initial_atr = None THEN s
    ELSE LET trail_stop == IF IsNaN(s.initial_atr) THEN NaN
                           ELSE s.lowest_since_entry + s.initial_atr * trailing_atr_mult
         IN  IF Lt(trail_stop, s.stop_price)
             THEN [s EXCEPT !.stop_price = trail_stop] ELSE s

\* floor(abs(position.size) * 0.4)
tp_size(possize) == (4 * Abs(possize)) \div 10

\* variant of take_profit_long that does not look at exit_order
take_profit_long_repeated(r, possize, high) ==
    IF r.strat.tp_price # None /\ high >= r.strat.tp_price
       /\ tp_size(possize) > 0
    THEN LET o == Order("Limit", -tp_size(possize), r.strat.tp_price, "tp")
         IN  [strat |-> [r.strat EXCEPT !.exit_order = <<o>>],
              orders |-> Append(r.orders, o)]
    ELSE r

\* TP1 (long): a limit sell of 40% at tp_price, if none was placed yet
take_profit_long(r, possize, high) ==
    IF r.strat.tp_price # None /\ high >= r.strat.tp_price
       /\ r.strat.exit_order = <<>> /\ tp_size(possize) > 0
    THEN LET o == Order("Limit", -tp_size(possize), r.strat.tp_price, "tp")
         IN  [strat |-> [r.strat EXCEPT !.exit_order = <<o>>],
              orders |-> Append(r.orders, o)]
    ELSE r

\* TP1 (short): a limit buy of 40% at tp_price, if none was placed yet
take_profit_short(r, possize, low) ==
    IF r.strat.tp_price # None /\ low <= r.strat.tp_price
       /\ r.strat.exit_order = <<>> /\ tp_size(possize) > 0
    THEN LET o == Order("Limit", tp_size(possize), r.strat.tp_price, "tp")
         IN  [strat |-> [r.strat EXCEPT !.exit_order = <<o>>],
              orders |-> Append(r.orders, o)]
    ELSE r

\* stop loss check (long); the reason "Stop loss LONG at <stop_price>" is
\* kept without the number
stop_loss_long(r, possize, close) ==
    IF close <= r.strat.stop_price /\ r.strat.close_reason = ""
    THEN [strat |-> [r.strat EXCEPT !.close_reason = "Stop loss LONG"],
          orders |-> Append(r.orders, CloseOrder(possize, close, "Stop loss LONG"))]
    ELSE r

\* stop loss check (short)
stop_loss_short(r, possize, close) ==
    IF close >= r.strat.stop_price /\ r.strat.close_reason = ""
    THEN [strat |-> [r.strat EXCEPT !.close_reason = "Stop loss SHORT"],
          orders |-> Append(r.orders, CloseOrder(possize, close, "Stop loss SHORT"))]
    ELSE r

\* variant of manage_long that runs the trailing stop before the breakeven
manage_long_breakeven_last(s, possize, close, high) ==
    LET s1 == [s EXCEPT !.highest_since_entry =
                  Max(IF Truthy(s.highest_since_entry)
                      THEN s.highest_since_entry ELSE s.entry_price, high)]
        s2 == breakeven_long(trailing_long(s1), close)
        r3 == take_profit_long([strat |-> s2, orders |-> <<>>], possize, high)
    IN  stop_loss_long(r3, possize, close)

manage_long(s, possize, close, high) ==
    LET s1 == [s EXCEPT !.highest_since_entry =
                  Max(IF Truthy(s.highest_since_entry)
                      THEN s.highest_since_entry ELSE s.entry_price, high)]
        s2 == trailing_long(breakeven_long(s1, close))
        r3 == take_profit_long([strat |-> s2, orders |-> <<>>], possize, high)
    IN  stop_loss_long(r3, possize, close)

manage_short(s, possize, close, low) ==
    LET s1 == [s EXCEPT !.lowest_since_entry =
                  Min(IF Truthy(s.lowest_since_entry)
                      THEN s.lowest_since_entry ELSE s.entry_price, low)]
        s2 == trailing_short(breakeven_short(s1, close))
        r3 == take_profit_short([strat |-> s2, orders |-> <<>>], possize, low)
    IN  stop_loss_short(r3, possize, close)

update_position_management(s, possize, close, high, low) ==
    IF s.entry_price = None \/ s.stop_price = None \/ s.entry_risk = None
    THEN [strat |-> s, orders |-> <<>>]
    ELSE IF possize > 0 THEN manage_long(s, possize, close, high)
         ELSE manage_short(s, possize, close, low)

\* trend-break exit, checked in next() after the position management
trend_break(r, possize, close, kijun) ==
    IF possize > 0 /\ Lt(close, kijun) /\ r.strat.close_reason = ""
    THEN [strat |-> [r.strat EXCEPT !.close_reason = "Trendbreak LONG (close under Kijun)"],
          orders |-> Append(r.orders, CloseOrder(possize, close, "Trendbreak LONG (close under Kijun)"))]
    ELSE IF possize < 0 /\ Gt(close, kijun) /\ r.strat.close_reason = ""
    THEN [strat |-> [r.strat EXCEPT !.close_reason = "Trendbreak SHORT (close over Kijun)"],
          orders |-> Append(r.orders, CloseOrder(possize, close, "Trendbreak SHORT (close over Kijun)"))]
    ELSE r

\* ------------------------------------------------------- strategy: next()
\* the date roll-over at the top of next()
reset_day(s, date) ==
    IF s.today = None \/ date # s.today
    THEN [s EXCEPT !.today = date, !.trades_today = 0] ELSE s

\* variants of the gates: one bar early, open at the threshold, one trade over
warm_one_bar_early(len) == len >= min_bars - 1
adx_gate_at_threshold(adx) == ~(IsNaN(adx) \/ adx < adx_threshold)
cap_gate_one_over(s, c) == ~(s.trades_today > c.max_trades_per_day)

\* the gates every bar passes before any entry or management
warm(len) == len >= min_bars
adx_gate(adx) == ~(IsNaN(adx) \/ adx <= adx_threshold)
cap_gate(s, c) == ~(s.trades_today >= c.max_trades_per_day)

long_setup(d) ==
    /\ Gt(d.gauss, d.gauss_prev) /\ Gt(d.vapi, d.vapi_prev)
    /\ Gt(d.close, d.smma) /\ Gt(d.close, d.kijun) /\ Lt(d.swing_low, d.close)

short_setup(d) ==
    /\ ~Gt(d.gauss, d.gauss_prev) /\ ~Gt(d.vapi, d.vapi_prev)
    /\ Lt(d.close, d.smma) /\ Lt(d.close, d.kijun) /\ Gt(d.swing_high, d.close)

\* the branch of next() for a flat position
flat_branch(s, c, d, equity) ==
    LET s1 == [s EXCEPT !.exit_order = <<>>, !.close_reason = ""]
        lsize == determine_size(c, equity, d.close, d.swing_low)
        ssize == determine_size(c, equity, d.close, d.swing_high)
    IN  IF long_setup(d) /\ lsize > 0
        THEN LET s2 == enter_long(s1, d.close, lsize, d.swing_low, d.atr)
             IN  [strat |-> s2, orders |-> s2.entry_order]
        ELSE IF short_setup(d) /\ ssize > 0
        THEN LET s2 == enter_short(s1, d.close, ssize, d.swing_high, d.atr)
             IN  [strat |-> s2, orders |-> s2.entry_order]
        ELSE [strat |-> s1, orders |-> <<>>]

\* variant of the branch for an open position that takes the ATR of the
\* current bar for the trailing stop
position_branch_current_atr(s, possize, d) ==
    trend_break(update_position_management([s EXCEPT !.initial_atr = d.atr],
                                            possize, d.close, d.high, d.low),
                possize, d.close, d.kijun)

\* the branch of next() for an open position
position_branch(s, possize, d) ==
    trend_break(update_position_management(s, possize, d.close, d.high, d.low),
                possize, d.close, d.kijun)

\* next() without the test of self.position: the setups are evaluated on
\* every bar that passes the gates
strategy_next_always_flat(s, c, d, len, possize, equity) ==
    LET s1 == reset_day(s, d.date)
    IN  IF ~warm(len) \/ ~adx_gate(d.adx) \/ ~cap_gate(s1, c)
        THEN [strat |-> s1, orders |-> <<>>]
        ELSE flat_branch(s1, c, d, equity)

\* next(): the strategy's fields after the bar and the orders it submitted
strategy_next(s, c, d, len, possize, equity) ==
    LET s1 == reset_day(s, d.date)
    IN  IF ~warm(len) \/ ~adx_gate(d.adx) \/ ~cap_gate(s1, c)
        THEN [strat |-> s1, orders |-> <<>>]
        ELSE IF possize = 0 THEN flat_branch(s1, c, d, equity)
             ELSE position_branch(s1, possize, d)

\* ------------------------------------------------ engine: broker and trades
\* The broker of run_backtest: cash, the position size and the orders not
\* yet executed.  Commission is 0 and the asset is stock-like, so a fill of
\* signed size n at price p moves cash by -n * p; within the bounds cash
\* stays positive and no order is rejected for margin.
BrokerInit == [cash |-> starting_equity, size |-> 0, pending |-> <<>>]

\* backtrader's Trade object of the current position (ref 0: none yet)
TradeInit ==
    [ref |-> 0, size |-> 0, price |-> 0, pnl |-> 0,
     isopen |-> FALSE, isclosed |-> FALSE, justopened |-> FALSE]

\* Position.update: the parts of a fill of signed size n that close and open
closed_part(oldsize, n) ==
    IF oldsize = 0 THEN 0
    ELSE IF oldsize > 0
         THEN (IF n > 0 THEN 0 ELSE IF oldsize + n >= 0 THEN n ELSE -oldsize)
         ELSE (IF n < 0 THEN 0 ELSE IF oldsize + n <= 0 THEN n ELSE -oldsize)

opened_part(oldsize, n) == n - closed_part(oldsize, n)

\* Trade.update(size, price): the trade after n contracts more at price p
trade_update(tr, n, p) ==
    LET newsize == tr.size + n
        grows == Abs(newsize) > Abs(tr.size)
    IN  [tr EXCEPT
            !.size = newsize,
            !.justopened = (tr.size = 0 /\ n # 0),
            !.isopen = (newsize # 0),
            !.isclosed = (tr.size # 0 /\ newsize = 0),
            !.price = IF grows
                      THEN (Abs(tr.size) * tr.price + Abs(n) * p) \div Abs(newsize)
                      ELSE tr.price,
            !.pnl = IF grows THEN tr.pnl ELSE tr.pnl + (-n) * (p - tr.price)]

\* a queued notification: the copy of the Trade, and (not fields of the
\* program's Trade) the tag and reason of the order whose fill queued it,
\* the price p of that fill and the signed size n it booked on the Trade
Notification(tr, o, p, n) ==
    [ref |-> tr.ref, size |-> tr.size, price |-> tr.price, pnl |-> tr.pnl,
     isopen |-> tr.isopen, isclosed |-> tr.isclosed,
     justopened |-> tr.justopened, by |-> o.tag, reason |-> o.reason,
     fill |-> p, part |-> n]

\* what is kept of a fill: the order's tag, size and creation price, and the
\* price it executed at
Fill(o, p) == [tag |-> o.tag, size |-> o.size, created |-> o.price, price |-> p]

\* x = [cash, size, trade, tradespending, alive, closes, filled]: the fold
\* state of one broker.next(); _execute fills order o at price p and the strategy's
\* _addnotification books the fill on the Trade and queues notifications.
execute(x, o, p) ==
    LET closed == closed_part(x.size, o.size)
        opened == opened_part(x.size, o.size)
        t1 == IF closed # 0 THEN trade_update(x.trade, closed, p) ELSE x.trade
        q1 == IF closed # 0 /\ t1.isclosed
              THEN Append(x.tradespending, Notification(t1, o, p, closed))
              ELSE x.tradespending
        t2 == IF opened = 0 THEN t1
              ELSE IF t1.isclosed \/ t1.ref = 0
                   THEN trade_update([TradeInit EXCEPT !.ref = t1.ref + 1], opened, p)
                   ELSE trade_update(t1, opened, p)
        q2 == IF t2.justopened THEN Append(q1, Notification(t2, o, p, opened)) ELSE q1
    IN  [x EXCEPT !.cash = x.cash - o.size * p,
                  !.size = x.size + o.size,
                  !.closes = x.closes + (IF closed = -x.size /\ closed # 0
                                         THEN 1 ELSE 0),
                  !.filled = Append(x.filled, Fill(o, p)),
                  !.trade = t2,
                  !.tradespending = q2]

\* _try_exec: Market fills at the open; Limit at the open when the open is
\* already beyond the limit, else at the limit when the bar reaches it
fill_price(o, d) ==
    IF o.exectype = "Market" THEN d.open
    ELSE IF o.size > 0
         THEN (IF o.price >= d.open THEN d.open
               ELSE IF o.price >= d.low THEN o.price ELSE None)
         ELSE (IF o.price <= d.open THEN d.open
               ELSE IF o.price <= d.high THEN o.price ELSE None)

try_exec(x, o, d) ==
    IF fill_price(o, d) = None
    THEN [x EXCEPT !.alive = Append(x.alive, o)]
    ELSE execute(x, o, fill_price(o, d))

RECURSIVE broker_fold(_, _, _)
broker_fold(x, pending, d) ==
    IF pending = <<>> THEN x
    ELSE broker_fold(try_exec(x, Head(pending), d), Tail(pending), d)

\* broker.next() on bar d: every pending order is tried once, in the order
\* of submission
broker_next(b, tr, d) ==
    broker_fold([cash |-> b.cash, size |-> b.size, trade |-> tr,
                 tradespending |-> <<>>, alive |-> <<>>, closes |-> 0,
                 filled |-> <<>>],
                b.pending, d)

\* ----------------------------------------------------------- TradeLogger
LoggerInit == [trades |-> <<>>, trade_counter |-> 0, open_trades |-> {}]

\* the entry information TradeLogger remembers for trade.ref (empty: none)
entry_info(lg, ref) == {e \in lg.open_trades : e.ref = ref}

\* variant of notify_trade that also appends a record when a trade opens
logger_notify_trade_every_time(lg, tr, reason) ==
    LET lg1 == IF tr.isopen /\ entry_info(lg, tr.ref) = {}
               THEN [lg EXCEPT !.open_trades = @ \cup
                        {[ref |-> tr.ref, entry_price |-> tr.price,
                          size |-> Abs(tr.size)]}]
               ELSE lg
        info == entry_info(lg1, tr.ref)
        entry_price == IF info = {} THEN tr.price
                       ELSE (CHOOSE e \in info : TRUE).entry_price
        size == IF info = {} THEN Abs(tr.size)
                ELSE (CHOOSE e \in info : TRUE).size
        exit_price == entry_price + (IF size # 0 THEN tr.pnl \div size ELSE 0)
    IN  IF tr.isclosed \/ tr.justopened
        THEN [lg1 EXCEPT
                !.trade_counter = lg1.trade_counter + 1,
                !.open_trades = lg1.open_trades \ info,
                !.trades = Append(lg1.trades,
                    [trade_id |-> lg1.trade_counter + 1,
                     entry_price |-> entry_price,
                     exit_price |-> exit_price,
                     size |-> size,
                     pnl |-> tr.pnl,
                     is_winner |-> (tr.pnl > 0),
                     close_reason |-> reason])]
        ELSE lg1

\* TradeLogger.notify_trade(trade); reason is what the strategy's
\* close_reason attribute holds when the analyzer runs
logger_notify_trade(lg, tr, reason) ==
    LET lg1 == IF tr.isopen /\ entry_info(lg, tr.ref) = {}
               THEN [lg EXCEPT !.open_trades = @ \cup
                        {[ref |-> tr.ref, entry_price |-> tr.price,
                          size |-> Abs(tr.size)]}]
               ELSE lg
        info == entry_info(lg1, tr.ref)
        entry_price == IF info = {} THEN tr.price
                       ELSE (CHOOSE e \in info : TRUE).entry_price
        size == IF info = {} THEN Abs(tr.size)
                ELSE (CHOOSE e \in info : TRUE).size
        exit_price == entry_price + (IF size # 0 THEN tr.pnl \div size ELSE 0)
    IN  IF tr.isclosed
        THEN [lg1 EXCEPT
                !.trade_counter = lg1.trade_counter + 1,
                !.open_trades = lg1.open_trades \ info,
                !.trades = Append(lg1.trades,
                    [trade_id |-> lg1.trade_counter + 1,
                     entry_price |-> entry_price,
                     exit_price |-> exit_price,
                     size |-> size,
                     pnl |-> tr.pnl,
                     is_winner |-> (tr.pnl > 0),
                     close_reason |-> reason])]
        ELSE lg1

\* GaussianKijunStrategy.notify_trade(trade)
strategy_notify_trade(s, tr) ==
    IF tr.isclosed THEN [s EXCEPT !.close_reason = ""] ELSE s

\* ------------------------------------------------------------ the data feed
\* Bars of the feed.  The prices and the date are set when the feed
\* advances; the indicator lines of the bar are drawn when next() reads
\* them (Unread before that).
Closes == {16, 20, 24}
Wicks == {0, 4}
Unread == None

\* a bar closes at c with an upper wick u and a lower wick w (High > Low as
\* clean_data leaves it) and opens at its low or at its high
OHLC ==
    { [open |-> IF up THEN c + u ELSE c - w, high |-> c + u, low |-> c - w,
       close |-> c] :
        c \in Closes, u \in Wicks, w \in Wicks, up \in BOOLEAN } \
    { b \in [open : Int, high : Int, low : Int, close : Int] : b.high = b.low }

\* (previous, current) values of a line: rising, falling, level
Trends == {<<1, 2>>, <<2, 1>>, <<2, 2>>}
AdxValues == {NaN, 25, 26}
\* kijun and smma lie below every close or above every close
KijunValues == {14, 26}
SmmaValues == {14, 26}
AtrValues == {NaN, 1}
\* (swing_low, swing_high)
Swings == {<<4, 36>>}

\* the indicator lines next() can read on a bar
Signals ==
    { [gauss_prev |-> g[1], gauss |-> g[2], vapi_prev |-> v[1], vapi |-> v[2],
       kijun |-> k, adx |-> a, smma |-> m, atr |-> r,
       swing_low |-> sw[1], swing_high |-> sw[2]] :
        g \in Trends, v \in Trends, k \in KijunValues, a \in AdxValues,
        m \in SmmaValues, r \in AtrValues, sw \in Swings }

\* one value for the lines of i that next() does not use
Plain(i) ==
    /\ i.gauss_prev = 1 /\ i.gauss = 2 /\ i.vapi_prev = 1 /\ i.vapi = 2
    /\ i.smma = 14 /\ i.atr = 1

\* the lines drawn on a bar that can enter: with the adx gate shut or the
\* two trends apart no setup is evaluated to the end, and the lines unused
\* then take one value
EntrySignals ==
    { i \in Signals :
        \/ adx_gate(i.adx) /\ (i.gauss > i.gauss_prev <=> i.vapi > i.vapi_prev)
        \/ Plain(i) }

\* on a bar that cannot enter, next() uses adx and kijun alone
HeldSignals == { i \in Signals : Plain(i) }

\* the lines next() reads on every bar
NewBar(date, p) ==
    [date |-> date, open |-> p.open, high |-> p.high, low |-> p.low,
     close |-> p.close, kijun |-> Unread, adx |-> Unread]

\* the bar as next() reads it: the feed's prices and the lines i
BarRead(d, i) ==
    [date |-> d.date, open |-> d.open, high |-> d.high, low |-> d.low,
     close |-> d.close, kijun |-> i.kijun, adx |-> i.adx,
     gauss |-> i.gauss, gauss_prev |-> i.gauss_prev,
     vapi |-> i.vapi, vapi_prev |-> i.vapi_prev, smma |-> i.smma,
     atr |-> i.atr, swing_low |-> i.swing_low, swing_high |-> i.swing_high]

NoSignals == <<>>

IsEntry(o) == o.tag = "entry"
IsClose(o) == o.tag = "close"
IsTp(o) == o.tag = "tp"
Count(seq, P(_)) == Cardinality({k \in DOMAIN seq : P(seq[k])})

\* ------------------------------------------------------------------- state
VARIABLES
    cfg,            \* the run's TradingConfig values that vary (Configs)
    pc,             \* where the engine is within the bar
    len,            \* len(self.data): bars delivered so far
    data,           \* the current bar: prices, date, and adx and kijun once read
    signals,        \* <<the lines read by next()>> on a bar that reached the
                    \* entry setups
    strat,          \* the fields of GaussianKijunStrategy
    broker,         \* cash, position size, pending orders
    trade,          \* the Trade object of the current position
    tradespending,  \* trade notifications not yet delivered
    logger,         \* the fields of TradeLogger
    issued,         \* the orders next() submitted on the current bar
    entries_on_date,\* entry orders submitted on bars of the current date
    life,           \* of the open position: tp orders submitted for it, and
                    \* whether an entry order opened it
    before,         \* stop_price and breakeven_active as next() found them,
                    \* trades_today after its date roll-over
    closes,         \* times the broker position reached or crossed zero
    filled,         \* the fills of the bar's broker.next(), until next() runs
    calc            \* the call or the runs examined outside a backtest

\* the variables of one run of the backtest
run_vars == <<cfg, pc, len, data, signals, strat, broker, trade, tradespending,
              logger, issued, entries_on_date, life, before, closes,
              filled>>

vars == <<run_vars, calc>>

NoCalc == <<>>

\* A longer run over a narrower feed: a fixed size of 100, which buys 3
\* units at a close of 32 and 1 unit at a close of 52; bars that open at
\* their low, four below the close; and on the bars that can enter the
\* lines of a long set-up or of none
LongBars == 6
LongRun == [op |-> "long_run"]
LongConfig ==
    [fixed_position_size |-> 100, max_trades_per_day |-> 2,
     contract_multiplier |-> contract_multiplier]
LongCloses == {32, 52}
LongOHLC ==
    { [open |-> c - 4, high |-> c + u, low |-> c - 4, close |-> c] :
        c \in LongCloses, u \in Wicks }
LongSignals ==
    {i \in Signals : i.vapi_prev = 1 /\ i.vapi = 2 /\ i.gauss = 2
                      /\ i.smma = 14 /\ i.atr = 1}
Bars == IF calc = LongRun THEN LongBars ELSE MaxBars
Feed == IF calc = LongRun THEN LongOHLC ELSE OHLC
Lines(S) == IF calc = LongRun THEN S \cap LongSignals ELSE S

NotRun == [stop_price |-> None, breakeven_active |-> FALSE, trades_today |-> 0]

NoLife == [tp |-> 0, entered |-> FALSE]

RunStart ==
    /\ pc = "advance"
    /\ len = 0
    /\ data = NewBar(0, [open |-> 0, high |-> 0, low |-> 0, close |-> 0])
    /\ signals = NoSignals
    /\ strat = StrategyInit
    /\ broker = BrokerInit
    /\ trade = TradeInit
    /\ tradespending = <<>>
    /\ logger = LoggerInit
    /\ issued = <<>>
    /\ entries_on_date = 0
    /\ life = NoLife
    /\ before = NotRun
    /\ closes = 0
    /\ filled = <<>>

RunInit == cfg \in Configs /\ RunStart

Init == RunInit /\ calc = NoCalc

\* cerebro: the feed advances to the next bar and the broker tries the
\* pending orders against it
Advance ==
    /\ pc = "advance"
    /\ len < Bars
    /\ \E p \in Feed, date \in {data.date, data.date + 1} :
         /\ date >= 1 /\ date <= MaxDays
         /\ LET d == NewBar(date, p)
                x == broker_next(broker, trade, d)
            IN  /\ data' = d
                /\ broker' = [cash |-> x.cash, size |-> x.size, pending |-> x.alive]
                /\ trade' = x.trade
                /\ closes' = closes + x.closes
                /\ filled' = x.filled
                /\ tradespending' = x.tradespending
                /\ pc' = IF x.tradespending = <<>> THEN "next" ELSE "notify_strategy"
                /\ entries_on_date' = IF date = data.date THEN entries_on_date ELSE 0
                /\ life' = IF x.size = 0 THEN NoLife
                           ELSE IF broker.size = 0
                                THEN [tp |-> 0,
                                      entered |-> Count(broker.pending, IsEntry) > 0]
                                ELSE life
    /\ len' = len + 1
    /\ issued' = <<>>
    /\ signals' = NoSignals
    /\ before' = NotRun
    /\ UNCHANGED <<cfg, strat, logger, calc>>

\* Strategy._notify: the strategy's notify_trade for the first queued trade
StrategyNotifyTrade ==
    /\ pc = "notify_strategy"
    /\ strat' = strategy_notify_trade(strat, Head(tradespending))
    /\ pc' = "notify_analyzers"
    /\ UNCHANGED <<cfg, len, data, signals, broker, trade, tradespending, logger,
                   issued, entries_on_date, life, before, closes, filled, calc>>

\* Strategy._notify: then the analyzers' notify_trade for the same trade
LoggerNotifyTrade ==
    /\ pc = "notify_analyzers"
    /\ logger' = logger_notify_trade(logger, Head(tradespending), strat.close_reason)
    /\ tradespending' = Tail(tradespending)
    /\ pc' = IF Tail(tradespending) = <<>> THEN "next" ELSE "notify_strategy"
    /\ UNCHANGED <<cfg, len, data, signals, strat, broker, trade, issued,
                   entries_on_date, life, before, closes, filled, calc>>

\* whether next() can reach the entry setups on this bar
CanEnter == broker.size = 0 /\ warm(len)

\* the strategy's next() on the current bar
StrategyNext ==
    /\ pc = "next"
    /\ \E i \in Lines(IF CanEnter THEN EntrySignals ELSE HeldSignals) :
         LET d == BarRead(data, i)
             r == strategy_next(strat, cfg, d, len, broker.size, broker.cash)
         IN  /\ data' = [data EXCEPT !.kijun = i.kijun, !.adx = i.adx]
             /\ signals' = IF /\ CanEnter /\ adx_gate(i.adx)
                               /\ cap_gate(reset_day(strat, data.date), cfg)
                            THEN <<i>> ELSE NoSignals
             /\ strat' = r.strat
             /\ issued' = r.orders
             /\ broker' = [broker EXCEPT !.pending = broker.pending \o r.orders]
             /\ entries_on_date' = entries_on_date + Count(r.orders, IsEntry)
             /\ life' = [life EXCEPT !.tp = life.tp + Count(r.orders, IsTp)]
             /\ before' = [stop_price |-> strat.stop_price,
                           breakeven_active |-> strat.breakeven_active,
                           trades_today |-> reset_day(strat, data.date).trades_today]
    /\ pc' = "advance"
    /\ filled' = <<>>
    /\ UNCHANGED <<cfg, len, trade, tradespending, logger, closes, calc>>

Next == Advance \/ StrategyNotifyTrade \/ LoggerNotifyTrade \/ StrategyNext

Spec == Init /\ [][Next]_vars

LongRunInit == cfg = LongConfig /\ RunStart /\ calc = LongRun

LongRunSpec == LongRunInit /\ [][Next]_vars

\* ------------------------------------------------- find_swing_high_low
\* src/app/indicators.py.  A frame is a sequence of rows [High, Low]; a
\* column is a sequence of numbers.
swing_order == 2

SetMax(S) == CHOOSE m \in S : \A v \in S : v <= m
SetMin(S) == CHOOSE m \in S : \A v \in S : m <= v

\* Series.rolling(window, min_periods=1).max(): over the last `window` rows
\* up to and including row i
rolling_max(col, window) ==
    [i \in 1..Len(col) |-> SetMax({col[j] : j \in Max(1, i - window + 1)..i})]

rolling_min(col, window) ==
    [i \in 1..Len(col) |-> SetMin({col[j] : j \in Max(1, i - window + 1)..i})]

\* variant of shift that leaves the column in place
shift_none(col) == col

\* Series.shift(1): every value moves one row down, the first row is NaN
shift(col) ==
    [i \in 1..Len(col) |-> IF i = 1 THEN NaN ELSE col[i - 1]]

find_swing_high_low(df, order) ==
    [swing_high |-> shift(rolling_max([i \in 1..Len(df) |-> df[i].High], order)),
     swing_low |-> shift(rolling_min([i \in 1..Len(df) |-> df[i].Low], order))]

\* two frames of at most SwingLen rows, and what the function returns for
\* each
SwingLen == 4
SwingRows == {[High |-> 3, Low |-> 1], [High |-> 4, Low |-> 1],
              [High |-> 4, Low |-> 2]}
Frames == UNION {[1..n -> SwingRows] : n \in 1..SwingLen}

SwingInit ==
    /\ RunInit
    /\ calc \in {[op |-> "swing", a |-> a, b |-> b, out_a |-> <<>>, out_b |-> <<>>] :
                  a \in Frames, b \in Frames}

SwingApply ==
    /\ calc.out_a = <<>>
    /\ calc' = [calc EXCEPT !.out_a = <<find_swing_high_low(calc.a, swing_order)>>,
                            !.out_b = <<find_swing_high_low(calc.b, swing_order)>>]
    /\ UNCHANGED run_vars

SwingNext == SwingApply

SwingSpec == SwingInit /\ [][SwingNext]_vars

\* ------------------------------------------------- the windowed fields
\* compute_kijun_sen, compute_smma and find_swing_high_low of
\* src/app/indicators.py on a frame of rows [High, Low, Close].
\*
\* The columns are float64.  Here a float has MantissaBits significant bits
\* and is a whole number of the least unit: every result of +, * and / is
\* the nearest such number, a tie going to the even one, as in IEEE 754.
MantissaBits == 4

RECURSIVE BitLen(_)
BitLen(x) == IF x = 0 THEN 0 ELSE 1 + BitLen(x \div 2)

RECURSIVE Pow2(_)
Pow2(k) == IF k = 0 THEN 1 ELSE 2 * Pow2(k - 1)

\* the float nearest to num / den (num >= 0, den > 0)
fround(num, den) ==
    LET whole == num \div den
        step == IF BitLen(whole) <= MantissaBits THEN 1
                ELSE Pow2(BitLen(whole) - MantissaBits)
        k == num \div (den * step)
        rest == num - k * den * step
    IN  IF 2 * rest < den * step THEN k * step
        ELSE IF 2 * rest > den * step THEN (k + 1) * step
        ELSE IF k % 2 = 0 THEN k * step ELSE (k + 1) * step

fadd(a, b) == IF IsNaN(a) \/ IsNaN(b) THEN NaN ELSE fround(a + b, 1)
fmul(a, n) == IF IsNaN(a) THEN NaN ELSE fround(a * n, 1)
fdiv(a, n) == IF IsNaN(a) THEN NaN ELSE fround(a, n)

\* Series.mean() of a column without NaN: the sum, then / count
RECURSIVE fsum(_)
fsum(col) == IF col = <<>> THEN 0 ELSE fadd(fsum(SubSeq(col, 1, Len(col) - 1)), col[Len(col)])

series_mean(col) == IF col = <<>> THEN NaN ELSE fdiv(fsum(col), Len(col))

\* Series.rolling(window).max(): min_periods is the window, so a row with
\* fewer than `window` rows up to it is NaN
rolling_full_max(col, window) ==
    [i \in 1..Len(col) |->
        IF i < window THEN NaN ELSE SetMax({col[j] : j \in (i - window + 1)..i})]

rolling_full_min(col, window) ==
    [i \in 1..Len(col) |->
        IF i < window THEN NaN ELSE SetMin({col[j] : j \in (i - window + 1)..i})]

\* compute_kijun_sen: the column 'kijun' (period >= 1)
compute_kijun_sen(df, period) ==
    LET hi == rolling_full_max([i \in 1..Len(df) |-> df[i].High], period)
        lo == rolling_full_min([i \in 1..Len(df) |-> df[i].Low], period)
    IN  [i \in 1..Len(df) |-> fdiv(fadd(hi[i], lo[i]), 2)]

\* smma.iloc[i - 1] of compute_smma for rows numbered from 1 (length >= 1)
RECURSIVE smma_at(_, _, _)
smma_at(col, length, i) ==
    IF Len(col) < length \/ i < length THEN NaN
    ELSE IF i = length THEN series_mean(SubSeq(col, 1, length))
    ELSE fdiv(fadd(fmul(smma_at(col, length, i - 1), length - 1), col[i]), length)

\* variant of compute_smma whose seed lies one row late
compute_smma_seed_late(df, period) ==
    LET col == [i \in 1..Len(df) |-> df[i].Close]
    IN  [i \in 1..Len(df) |-> IF i = 1 THEN NaN
                               ELSE smma_at(Tail(col), period, i - 1)]

\* compute_smma with src = 'Close': the column 'smma'
compute_smma(df, period) ==
    LET col == [i \in 1..Len(df) |-> df[i].Close]
    IN  [i \in 1..Len(df) |-> smma_at(col, period, i)]

\* the frames and periods examined
WindowLen == 4
CloseValues == {3, 5, 14}
WindowRows == {[High |-> c + 1, Low |-> c - 1, Close |-> c] : c \in CloseValues}
WindowFrames == UNION {[1..n -> WindowRows] : n \in 0..WindowLen}
Periods == 1..(WindowLen + 1)

WindowInit ==
    /\ RunInit
    /\ calc \in {[op |-> "windows", df |-> df, period |-> n, out |-> <<>>] :
                  df \in WindowFrames, n \in Periods}

\* the three functions, each called with the period
WindowApply ==
    /\ calc.out = <<>>
    /\ calc' = [calc EXCEPT !.out =
                   <<[kijun |-> compute_kijun_sen(calc.df, calc.period),
                      smma |-> compute_smma(calc.df, calc.period),
                      swing_high |-> find_swing_high_low(calc.df, calc.period).swing_high,
                      swing_low |-> find_swing_high_low(calc.df, calc.period).swing_low]>>]
    /\ UNCHANGED run_vars

WindowNext == WindowApply

WindowSpec == WindowInit /\ [][WindowNext]_vars

\* ------------------------------------------------ compute_all_indicators
\* The pipeline of src/app/indicators.py, step by step.  A column computed
\* by pandas_ta or by pandas' ewm is kept as the call that made it (the
\* function and its length); kijun, smma and the swing fields are computed.
\* A column the frame does not have is NoColumn.
NoColumn == <<>>
LibraryPeriods == {10, 14}
PipelineFrames == UNION {[1..n -> WindowRows] : n \in 0..2}
PipelineConfigs ==
    [gaussian_period : LibraryPeriods, vapi_period : LibraryPeriods,
     adx_period : LibraryPeriods, atr_period : LibraryPeriods,
     kijun_period : {1, 2}, smma_period : {1, 2}, swing_order : {2}]

\* ta.atr(High, Low, Close, length), ta.adx(...)[name], and a chain of
\* ewm(span).mean() of a source
ta_atr(length) == <<[fn |-> "atr", length |-> length]>>
ta_adx(length) == [name |-> <<"ADX", length>>,
                   column |-> <<[fn |-> "adx", length |-> length]>>]
ewm(source, span) == <<[fn |-> source, length |-> span]>>

\* compute_atr: df['atr'] = ta.atr(..., length=period)
pipeline_compute_atr(df, period) == [df EXCEPT !.atr = ta_atr(period)]

\* compute_gaussian_channel: gauss, then atr and the two bands
pipeline_compute_gaussian_channel(df, period) ==
    [df EXCEPT !.gauss = ewm("ema3(Close)", period),
               !.atr = ta_atr(14),
               !.gaussian_upper = <<[fn |-> "gauss+atr", length |-> period]>>,
               !.gaussian_lower = <<[fn |-> "gauss-atr", length |-> period]>>]

pipeline_compute_kijun_sen(df, period) ==
    [df EXCEPT !.kijun = <<compute_kijun_sen(df.rows, period)>>]

\* compute_vapi: vapi (vapi_trend is derived from it)
pipeline_compute_vapi(df, period) ==
    [df EXCEPT !.vapi = ewm("Close*Volume/Volume", period)]

\* compute_adx: the column 'ADX_14' of ta.adx(..., length=period); with
\* another period the frame has no such column and the lookup raises
pipeline_compute_adx(df, period) ==
    LET adx_df == ta_adx(period)
    IN  IF adx_df.name = <<"ADX", 14>>
        THEN [df EXCEPT !.adx = adx_df.column]
        ELSE [df EXCEPT !.raised = TRUE]

pipeline_compute_smma(df, period) ==
    [df EXCEPT !.smma = <<compute_smma(df.rows, period)>>]

pipeline_find_swing_high_low(df, order) ==
    [df EXCEPT !.swing_high = <<find_swing_high_low(df.rows, order).swing_high>>,
               !.swing_low = <<find_swing_high_low(df.rows, order).swing_low>>]

PipelineInit ==
    /\ RunInit
    /\ calc \in {[op |-> "pipeline", config |-> c, at |-> "atr",
                   df |-> [rows |-> f, raised |-> FALSE,
                           atr |-> NoColumn, gauss |-> NoColumn,
                           gaussian_upper |-> NoColumn, gaussian_lower |-> NoColumn,
                           kijun |-> NoColumn, vapi |-> NoColumn, adx |-> NoColumn,
                           smma |-> NoColumn, swing_high |-> NoColumn,
                           swing_low |-> NoColumn]] :
                  c \in PipelineConfigs, f \in PipelineFrames}

\* calc after one statement of compute_all_indicators has made the frame
\* df: the next statement is `then`, unless the statement raised
pipeline_goto(df, then) ==
    [calc EXCEPT !.df = df, !.at = IF df.raised THEN "raised" ELSE then]

ComputeAtr ==
    /\ calc.at = "atr"
    /\ calc' = pipeline_goto(
                   pipeline_compute_atr(calc.df, calc.config.atr_period), "gauss")
    /\ UNCHANGED run_vars

ComputeGaussianChannel ==
    /\ calc.at = "gauss"
    /\ calc' = pipeline_goto(
                   pipeline_compute_gaussian_channel(calc.df, calc.config.gaussian_period),
                   "kijun")
    /\ UNCHANGED run_vars

ComputeKijunSen ==
    /\ calc.at = "kijun"
    /\ calc' = pipeline_goto(
                   pipeline_compute_kijun_sen(calc.df, calc.config.kijun_period), "vapi")
    /\ UNCHANGED run_vars

ComputeVapi ==
    /\ calc.at = "vapi"
    /\ calc' = pipeline_goto(
                   pipeline_compute_vapi(calc.df, calc.config.vapi_period), "adx")
    /\ UNCHANGED run_vars

ComputeAdx ==
    /\ calc.at = "adx"
    /\ calc' = pipeline_goto(
                   pipeline_compute_adx(calc.df, calc.config.adx_period), "smma")
    /\ UNCHANGED run_vars

ComputeSmma ==
    /\ calc.at = "smma"
    /\ calc' = pipeline_goto(
                   pipeline_compute_smma(calc.df, calc.config.smma_period), "swing")
    /\ UNCHANGED run_vars

FindSwingHighLow ==
    /\ calc.at = "swing"
    /\ calc' = pipeline_goto(
                   pipeline_find_swing_high_low(calc.df, calc.config.swing_order), "done")
    /\ UNCHANGED run_vars

PipelineNext ==
    \/ ComputeAtr \/ ComputeGaussianChannel \/ ComputeKijunSen \/ ComputeVapi
    \/ ComputeAdx \/ ComputeSmma \/ FindSwingHighLow

PipelineSpec == PipelineInit /\ [][PipelineNext]_vars

\* -------------------------------------------------------------- clean_data
\* src/app/transform.py.  A raw frame is a sequence of rows [Date, Open,
\* High, Low, Close, Volume]; a value may be NaN (NaT for a Date) or a text
\* that is no number.
Text == -4000       \* a string that pd.to_numeric cannot parse
numeric_columns == {"Open", "High", "Low", "Close", "Volume"}

\* pd.to_numeric(x, errors="coerce")
to_numeric(x) == IF x = Text THEN NaN ELSE x

coerce(r) ==
    [Date |-> r.Date, Open |-> to_numeric(r.Open), High |-> to_numeric(r.High),
     Low |-> to_numeric(r.Low), Close |-> to_numeric(r.Close),
     Volume |-> to_numeric(r.Volume)]

\* df.dropna(subset=numeric_columns + ["Date"])
dropna(df) ==
    SelectSeq(df, LAMBDA r : /\ ~IsNaN(r.Date) /\ ~IsNaN(r.Open) /\ ~IsNaN(r.High)
                             /\ ~IsNaN(r.Low) /\ ~IsNaN(r.Close) /\ ~IsNaN(r.Volume))

RECURSIVE SeqSum(_)
SeqSum(s) == IF s = <<>> THEN 0 ELSE Head(s) + SeqSum(Tail(s))

\* df[(df[col] >= mean - 5 * std) & (df[col] <= mean + 5 * std)] for the
\* column whose values are `col`: with n values of sum S and sum of squares
\* Q, std * std = (n Q - S S) / (n (n - 1)), so |x - mean| <= 5 std is
\* (n x - S)^2 (n - 1) <= 25 n (n Q - S S).  std is NaN for fewer than two
\* rows and the filter is skipped unless std > 0.
within_5_std(col, x) ==
    LET n == Len(col)
        S == SeqSum(col)
        Q == SeqSum([i \in 1..n |-> col[i] * col[i]])
    IN  IF n < 2 \/ n * Q - S * S <= 0 THEN TRUE
        ELSE (n * x - S) * (n * x - S) * (n - 1) <= 25 * n * (n * Q - S * S)

drop_outliers_open(df) ==
    SelectSeq(df, LAMBDA r : within_5_std([i \in 1..Len(df) |-> df[i].Open], r.Open))
drop_outliers_high(df) ==
    SelectSeq(df, LAMBDA r : within_5_std([i \in 1..Len(df) |-> df[i].High], r.High))
drop_outliers_low(df) ==
    SelectSeq(df, LAMBDA r : within_5_std([i \in 1..Len(df) |-> df[i].Low], r.Low))
drop_outliers_close(df) ==
    SelectSeq(df, LAMBDA r : within_5_std([i \in 1..Len(df) |-> df[i].Close], r.Close))

\* df.sort_values("Date"): rows of one Date keep their order
RECURSIVE insert_by_date(_, _)
insert_by_date(sorted, r) ==
    IF sorted = <<>> THEN <<r>>
    ELSE IF sorted[Len(sorted)].Date <= r.Date THEN Append(sorted, r)
    ELSE Append(insert_by_date(SubSeq(sorted, 1, Len(sorted) - 1), r),
                sorted[Len(sorted)])

RECURSIVE sort_values(_)
sort_values(df) ==
    IF df = <<>> THEN <<>>
    ELSE insert_by_date(sort_values(SubSeq(df, 1, Len(df) - 1)), df[Len(df)])

\* the rows left by dropna, Volume > 0 and High != Low
drop_invalid(df) ==
    SelectSeq(SelectSeq(dropna(df), LAMBDA r : r.Volume > 0),
              LAMBDA r : r.High # r.Low)

clean_data(df) ==
    LET typed == [i \in 1..Len(df) |-> coerce(df[i])]
        valid == drop_invalid(typed)
        kept == drop_outliers_close(drop_outliers_low(
                    drop_outliers_high(drop_outliers_open(valid))))
    IN  sort_values(kept)

\* the raw frames examined: up to CleanLen rows of these kinds on two
\* dates, and one long frame with a single far-off row
CleanLen == 3
Bar(d, o, h, l, c, v) ==
    [Date |-> d, Open |-> o, High |-> h, Low |-> l, Close |-> c, Volume |-> v]
RawRows ==
    UNION { {Bar(d, 10, 12, 8, 10, 5),      \* a regular bar
             Bar(d, 10, 12, 8, 10, 0),      \* no volume
             Bar(d, 10, 10, 10, 10, 5),     \* high = low
             Bar(d, 10, 8, 12, 10, 5),      \* high below low
             Bar(d, NaN, 12, 8, 10, 5),     \* a missing value
             Bar(d, 10, 12, 8, Text, 5)} :  \* a value that is no number
            d \in 1..2 }
    \cup {Bar(NaN, 10, 12, 8, 10, 5)}       \* no Date
OutlierFrame ==
    [i \in 1..27 |-> IF i = 14 THEN Bar(i, 10, 13, 8, 10, 5)
                     ELSE Bar(28 - i, 10, 12, 8, 10, 5)]
RawFrames == UNION {[1..n -> RawRows] : n \in 0..CleanLen} \cup {OutlierFrame}

CleanInit ==
    /\ RunInit
    /\ calc \in {[op |-> "clean", df |-> df, out |-> <<>>] : df \in RawFrames}

CleanApply ==
    /\ calc.out = <<>>
    /\ calc' = [calc EXCEPT !.out = <<clean_data(calc.df)>>]
    /\ UNCHANGED run_vars

CleanNext == CleanApply

CleanSpec == CleanInit /\ [][CleanNext]_vars

\* ------------------------------------------------------------ the database
\* src/app/database.py: the table ohlcv_data of the SQLite file, and calls
\* of init_database, save_to_database and fetch_from_database on it.
\* A timestamp is <<second, fraction>>; the text stored in the column date
\* has the second only.  The columns open, high, low, close and volume are
\* bound and read alike, and are taken by one of them, Close.  The table is
\* the sequence of its rows in the order of their insertion.
MaxCalls == 4
Tickers == {"KC=F", "ES=F"}

\* Timestamp.strftime('%Y-%m-%d %H:%M:%S')
strftime(ts) == ts[1]

\* pd.to_datetime of the stored text
to_datetime(text) == <<text, 0>>

\* the frames saved: rows [Date, Close], or rows without the column Date
DbRows ==
    {[Date |-> <<1, 0>>, Close |-> 3], [Date |-> <<1, 0>>, Close |-> 4],
     [Date |-> <<1, 5>>, Close |-> 3], [Date |-> <<2, 0>>, Close |-> 3]}
DbFrames ==
    {[has_date |-> TRUE, rows |-> s] : s \in UNION {[1..n -> DbRows] : n \in 0..2}}
    \cup {[has_date |-> FALSE, rows |-> <<[Close |-> 3]>>],
          [has_date |-> FALSE, rows |-> <<>>]}                \* pd.DataFrame()

NoDatabase == [created |-> FALSE, table |-> <<>>]

\* CREATE TABLE IF NOT EXISTS ohlcv_data (date TEXT PRIMARY KEY, ...)
init_database(db) == [db EXCEPT !.created = TRUE]

\* variant of the insertion: INSERT OR REPLACE
insert_or_replace(table, row) ==
    Append(SelectSeq(table, LAMBDA r : r.date # row.date), row)

\* INSERT OR IGNORE INTO ohlcv_data: date is the primary key, and a row
\* whose date is stored already is not inserted
insert_or_ignore(table, row) ==
    IF \E k \in DOMAIN table : table[k].date = row.date THEN table
    ELSE Append(table, row)

RECURSIVE insert_rows(_, _, _)
insert_rows(table, rows, ticker) ==
    IF rows = <<>> THEN table
    ELSE insert_rows(
            insert_or_ignore(table, [date |-> strftime(Head(rows).Date),
                                     close |-> Head(rows).Close,
                                     ticker |-> ticker]),
            Tail(rows), ticker)

\* variant of save_to_database without the test of df.empty, and with the
\* column Date read row by row inside the loop of insertions, where a row
\* without it is bound as NULL
save_to_database_unguarded(db, df, ticker) ==
    IF ~db.created THEN [db |-> db, ret |-> FALSE]
    ELSE IF ~df.has_date
    THEN [db |-> [db EXCEPT !.table = insert_rows(
                     @, [k \in DOMAIN df.rows |->
                            [Date |-> <<None, 0>>, Close |-> df.rows[k].Close]],
                     ticker)],
          ret |-> TRUE]
    ELSE [db |-> [db EXCEPT !.table = insert_rows(db.table, df.rows, ticker)],
          ret |-> TRUE]

\* save_to_database: the database after the call and what the call returns
save_to_database(db, df, ticker) ==
    IF df.rows = <<>> THEN [db |-> db, ret |-> FALSE]               \* df.empty
    ELSE IF ~df.has_date THEN [db |-> db, ret |-> FALSE]            \* KeyError
    ELSE IF ~db.created THEN [db |-> db, ret |-> FALSE]    \* no such table
    ELSE [db |-> [db EXCEPT !.table = insert_rows(db.table, df.rows, ticker)],
          ret |-> TRUE]

\* what fetch_from_database gives: a frame, None, or an exception (the
\* DatabaseError of pd.read_sql_query is no sqlite3.Error)
Fetched(kind, rows) == [kind |-> kind, rows |-> rows]

fetch_from_database(db, ticker, start_date, end_date) ==
    LET found == SelectSeq(db.table, LAMBDA r :
                    /\ r.ticker = ticker
                    /\ start_date # <<>> => r.date >= strftime(start_date[1])
                    /\ end_date # <<>> => r.date <= strftime(end_date[1]))
    IN  IF ~db.created THEN Fetched("raise", <<>>)
        ELSE IF found = <<>> THEN Fetched("None", <<>>)
        ELSE Fetched("frame",
                     [k \in 1..Len(found) |->
                        [Date |-> to_datetime(found[k].date),
                         Close |-> found[k].close, Ticker |-> found[k].ticker]])

\* the optional start_date and end_date of a fetch: <<>> is None
DateArgs == {<<>>, << <<2, 0>> >>}

DbInit ==
    /\ RunInit
    /\ calc = [op |-> "db", db |-> NoDatabase, n |-> 0, calls |-> <<>>]

\* the last two calls are kept, each with its arguments, the database it
\* found, what it returned and the database it left
Called(c) ==
    [calc EXCEPT !.db = c.db, !.n = @ + 1,
                 !.calls = IF Len(@) < 2 THEN Append(@, c) ELSE <<@[2], c>>]

InitDatabase ==
    /\ calc.n < MaxCalls
    /\ calc' = Called([fn |-> "init", before |-> calc.db,
                       db |-> init_database(calc.db)])
    /\ UNCHANGED run_vars

SaveToDatabase ==
    /\ calc.n < MaxCalls
    /\ \E df \in DbFrames, ticker \in Tickers :
         LET r == save_to_database(calc.db, df, ticker)
         IN  calc' = Called([fn |-> "save", df |-> df, ticker |-> ticker,
                             before |-> calc.db, ret |-> r.ret, db |-> r.db])
    /\ UNCHANGED run_vars

FetchFromDatabase ==
    /\ calc.n < MaxCalls
    /\ \E ticker \in Tickers, start_date \in DateArgs, end_date \in DateArgs :
         calc' = Called([fn |-> "fetch", ticker |-> ticker,
                         start_date |-> start_date, end_date |-> end_date,
                         before |-> calc.db,
                         ret |-> fetch_from_database(calc.db, ticker,
                                                     start_date, end_date),
                         db |-> calc.db])
    /\ UNCHANGED run_vars

DbNext == InitDatabase \/ SaveToDatabase \/ FetchFromDatabase

DbSpec == DbInit /\ [][DbNext]_vars

\* ------------------------------------------------------- the risk sizer
\* One call of _determine_size: a sizing configuration, the broker's value
\* and the entry and stop prices (in points), and what the call returns.
SizerEquities == {1000, 3000, 100000}
SizerEntries == {0, 90, 100}
SizerStops == {90, 95, 100}
SizerConfigs ==
    { [fixed_position_size |-> f, max_trades_per_day |-> 1,
       contract_multiplier |-> m] : f \in {-1, 0, 20000}, m \in {0, 1, 2} }

SizerInit ==
    /\ RunInit
    /\ calc \in {[op |-> "size", c |-> c, equity |-> q, entry |-> e, stop |-> s,
                   out |-> <<>>] :
                  c \in SizerConfigs, q \in SizerEquities, e \in SizerEntries,
                  s \in SizerStops}

SizerApply ==
    /\ calc.out = <<>>
    /\ calc' = [calc EXCEPT !.out =
                   <<determine_size(calc.c, calc.equity, calc.entry, calc.stop)>>]
    /\ UNCHANGED run_vars

SizerNext == SizerApply

SizerSpec == SizerInit /\ [][SizerNext]_vars

\* ------------------------------------------- the analyzers and the summary
\* The trade notifications of a run as cerebro delivers them to the
\* analyzers (bt.analyzers.TradeAnalyzer and TradeLogger), and the metrics
\* run_backtest extracts when the run has ended.  A run's trades are given
\* by the P&L each closes with; the last one may still be open at the end.
MaxTrades == 3
TradePnls == {-8, -4, 0, 4, 8}
StillOpen == 1000       \* in place of a P&L: the trade is not closed in the run

\* a quotient of two numbers, kept exact; the double +inf is 1/0
Ratio(n, d) == [num |-> n, den |-> d]
Infinity == Ratio(1, 0)
SameRatio(a, b) == a.num * b.den = b.num * a.den /\ (a.den = 0 <=> b.den = 0)

\* the notifications of trade number k: when it opens and, unless it stays
\* open, when it closes with P&L p (size 1, entry price 16)
trade_notifications(k, p) ==
    LET opened == [ref |-> k, size |-> 1, price |-> 16, pnl |-> 0,
                   isopen |-> TRUE, isclosed |-> FALSE, justopened |-> TRUE]
        closed == [ref |-> k, size |-> 0, price |-> 16, pnl |-> p,
                   isopen |-> FALSE, isclosed |-> TRUE, justopened |-> FALSE]
    IN  IF p = StillOpen THEN <<opened>> ELSE <<opened, closed>>

RECURSIVE run_notifications(_, _)
run_notifications(pnls, k) ==
    IF pnls = <<>> THEN <<>>
    ELSE trade_notifications(k, Head(pnls)) \o run_notifications(Tail(pnls), k + 1)

\* the runs examined: up to MaxTrades closed trades, or fewer and an open one
TradeRuns ==
    UNION { [1..n -> TradePnls] : n \in 0..MaxTrades }
    \cup UNION { {Append(s, StillOpen) : s \in [1..n -> TradePnls]} :
                 n \in 0..(MaxTrades - 1) }

\* bt.analyzers.TradeAnalyzer: the counters run_backtest reads
TradeAnalyzerInit ==
    [total |-> 0, open |-> 0, closed |-> 0,
     won |-> 0, won_pnl |-> 0, lost |-> 0, lost_pnl |-> 0]

\* TradeAnalyzer.notify_trade(trade); commission is 0, so pnlcomm = pnl
analyzer_notify_trade(ta, tr) ==
    IF tr.justopened
    THEN [ta EXCEPT !.total = @ + 1, !.open = @ + 1]
    ELSE IF tr.isclosed
    THEN LET won == IF tr.pnl >= 0 THEN 1 ELSE 0
             lost == 1 - won
         IN  [ta EXCEPT !.open = @ - 1, !.closed = @ + 1,
                        !.won = @ + won, !.won_pnl = @ + tr.pnl * won,
                        !.lost = @ + lost, !.lost_pnl = @ + tr.pnl * lost]
    ELSE ta

\* variant of the metrics: 0 in place of +inf when nothing was lost
extract_metrics_zero_sentinel(ta) ==
    [total_trades |-> ta.closed,
     percent_profitable |-> IF ta.closed > 0 THEN Ratio(ta.won * 100, ta.closed)
                            ELSE Ratio(0, 1),
     profit_factor |-> IF ta.lost_pnl # 0 THEN Ratio(ta.won_pnl, Abs(ta.lost_pnl))
                       ELSE Ratio(0, 1)]

\* run_backtest: total_trades, percent_profitable and profit_factor of the
\* summary, from the TradeAnalyzer's analysis
extract_metrics(ta) ==
    [total_trades |-> ta.closed,
     percent_profitable |-> IF ta.closed > 0 THEN Ratio(ta.won * 100, ta.closed)
                            ELSE Ratio(0, 1),
     profit_factor |-> IF ta.lost_pnl # 0 THEN Ratio(ta.won_pnl, Abs(ta.lost_pnl))
                       ELSE Infinity]

AnalyzerInit ==
    /\ RunInit
    /\ calc \in {[op |-> "analyze", pnls |-> s,
                   notifications |-> run_notifications(s, 1),
                   trade_analyzer |-> TradeAnalyzerInit,
                   trade_logger |-> LoggerInit,
                   summary |-> <<>>] : s \in TradeRuns}

\* Strategy._notify: each analyzer's notify_trade for the next trade
AnalyzersNotifyTrade ==
    /\ calc.notifications # <<>>
    /\ LET tr == Head(calc.notifications)
       IN  calc' = [calc EXCEPT
                      !.notifications = Tail(@),
                      !.trade_analyzer = analyzer_notify_trade(@, tr),
                      !.trade_logger = logger_notify_trade(@, tr, "")]
    /\ UNCHANGED run_vars

\* run_backtest after cerebro.run(): the metrics of the summary
ExtractMetrics ==
    /\ calc.notifications = <<>> /\ calc.summary = <<>>
    /\ calc' = [calc EXCEPT !.summary = <<extract_metrics(calc.trade_analyzer)>>]
    /\ UNCHANGED run_vars

AnalyzerNext == AnalyzersNotifyTrade \/ ExtractMetrics

AnalyzerSpec == AnalyzerInit /\ [][AnalyzerNext]_vars

\* ------------------------------------------- concurrent runs of run_backtest
\* Two calls of run_backtest in one working directory.  The broker, the
\* strategy and the TradeLogger of a call are objects of that call; the
\* files are written under fixed relative paths.  An input frame is taken
\* by the pnl of the trades its run closes and by the columns it has (Date
\* is always among them); Absent is a file not written.
Runs == {1, 2}
Absent == <<>>
InputFrames == {<<>>, <<4>>, <<4, -8>>}

\* the list `required` of run_backtest
required ==
    {"Open", "High", "Low", "Close", "Volume", "gauss", "kijun", "vapi", "smma",
     "adx", "atr", "swing_high", "swing_low"}

\* the columns of an input frame: all of them, or one or two missing
ColumnSets == {required, required \ {"atr"}, required \ {"Volume", "swing_low"}}

\* variant of the validation that looks at the price columns only
missing_ohlcv_only(columns) ==
    {"Open", "High", "Low", "Close", "Volume"} \ columns

\* missing = [c for c in required if c not in df_in.columns]
missing(columns) == required \ columns

RECURSIVE SumSeq(_)
SumSeq(s) == IF s = <<>> THEN 0 ELSE Head(s) + SumSeq(Tail(s))

\* the summary dict of a run whose TradeLogger holds `trades`
summary_of(trades) ==
    [pnl |-> SumSeq(trades), total_trades |-> Len(trades)]

NoFiles ==
    [backtest_input |-> Absent, backtest_summary |-> Absent,
     trades_detailed |-> Absent, backtest_chart |-> Absent]

RunsInit ==
    /\ RunInit
    /\ calc \in {[op |-> "runs",
                   df |-> df,
                   columns |-> cols,
                   at |-> [r \in Runs |-> "save_input"],
                   wrote |-> [r \in Runs |-> {}],
                   trade_logger |-> [r \in Runs |-> <<>>],
                   summary |-> [r \in Runs |-> Absent],
                   files |-> NoFiles,
                   returned |-> [r \in Runs |-> Absent],
                   left |-> [r \in Runs |-> Absent]] :
                  df \in {f \in [Runs -> InputFrames] : f[1] # f[2]},
                  cols \in [Runs -> ColumnSets]}

\* df.to_csv("results/reports/backtest_input.csv")
SaveInput(r) ==
    /\ calc.at[r] = "save_input"
    /\ calc' = [calc EXCEPT !.files.backtest_input = <<calc.df[r]>>,
                            !.wrote[r] = @ \cup {"backtest_input"},
                            !.at[r] = "validate"]
    /\ UNCHANGED run_vars

\* the required columns: a missing one raises ValueError and ends the call
Validate(r) ==
    /\ calc.at[r] = "validate"
    /\ calc' = [calc EXCEPT !.at[r] = IF missing(calc.columns[r]) # {}
                                      THEN "raised" ELSE "run"]
    /\ UNCHANGED run_vars

\* cerebro.run() and the metrics read from its analyzers
RunCerebro(r) ==
    /\ calc.at[r] = "run"
    /\ calc' = [calc EXCEPT !.trade_logger[r] = calc.df[r],
                            !.summary[r] = <<summary_of(calc.df[r])>>,
                            !.at[r] = "save_summary"]
    /\ UNCHANGED run_vars

\* summary_df.to_csv("results/reports/backtest_summary.csv")
SaveSummary(r) ==
    /\ calc.at[r] = "save_summary"
    /\ calc' = [calc EXCEPT !.files.backtest_summary = calc.summary[r],
                            !.wrote[r] = @ \cup {"backtest_summary"},
                            !.at[r] = "save_trades"]
    /\ UNCHANGED run_vars

\* trades_detailed.csv is written only when the run closed a trade
SaveTrades(r) ==
    /\ calc.at[r] = "save_trades"
    /\ calc' = [calc EXCEPT !.files.trades_detailed =
                                IF calc.trade_logger[r] # <<>>
                                THEN <<calc.trade_logger[r]>> ELSE @,
                            !.wrote[r] = IF calc.trade_logger[r] # <<>>
                                         THEN @ \cup {"trades_detailed"} ELSE @,
                            !.at[r] = "plot"]
    /\ UNCHANGED run_vars

\* plot_with_trades(..., save_path="results/plots/backtest_chart.png")
Plot(r) ==
    /\ calc.at[r] = "plot"
    /\ calc' = [calc EXCEPT !.files.backtest_chart =
                                <<calc.df[r], calc.trade_logger[r]>>,
                            !.wrote[r] = @ \cup {"backtest_chart"},
                            !.at[r] = "return"]
    /\ UNCHANGED run_vars

\* return summary; `left` keeps the files as they are at that moment
Return(r) ==
    /\ calc.at[r] = "return"
    /\ calc' = [calc EXCEPT !.returned[r] = calc.summary[r],
                            !.left[r] = <<calc.files>>,
                            !.at[r] = "done"]
    /\ UNCHANGED run_vars

RunsNext ==
    \E r \in Runs :
        \/ SaveInput(r) \/ Validate(r) \/ RunCerebro(r) \/ SaveSummary(r)
        \/ SaveTrades(r) \/ Plot(r) \/ Return(r)

RunsSpec == RunsInit /\ [][RunsNext]_vars

\* --------------------------------------------------------- the scheduled job
\* src/app/automate.py and src/app/main.py: run_job calls main, which calls
\* init_database, fetch_data, save_to_database, transform_data and
\* run_backtest in turn.  log is what run_job and main write to the log;
\* raised (not a field of the program) names the calls that raised.
\* fetch_data catches every exception and returns None; clean_data,
\* compute_all_indicators and run_backtest raise or return.
JobTicker == "KC=F"
JobFrames == {df \in DbFrames : df.has_date /\ Len(df.rows) = 1}
JobDatabases ==
    {NoDatabase,
     [created |-> TRUE,
      table |-> <<[date |-> 1, close |-> 3, ticker |-> JobTicker]>>]}

JobInit ==
    /\ RunInit
    /\ calc \in {[op |-> "job", at |-> "run_job", db |-> db, df |-> <<>>,
                  transformed_df |-> <<>>, log |-> <<>>, raised |-> {}] :
                 db \in JobDatabases}

\* run_job: logs the start and calls main()
RunJob ==
    /\ calc.op = "job" /\ calc.at = "run_job"
    /\ calc' = [calc EXCEPT !.log = Append(@, "ETL job started"),
                            !.at = "init_database"]
    /\ UNCHANGED run_vars

\* main: init_database(config), which re-raises an sqlite3.Error
MainInitDatabase ==
    /\ calc.op = "job" /\ calc.at = "init_database"
    /\ \E error \in BOOLEAN :
         calc' = IF error
                 THEN [calc EXCEPT !.raised = @ \cup {"init_database"},
                                   !.at = "except"]
                 ELSE [calc EXCEPT !.db = init_database(@),
                                   !.at = "fetch_data"]
    /\ UNCHANGED run_vars

\* main: df = fetch_data(config), a frame or None
MainFetchData ==
    /\ calc.op = "job" /\ calc.at = "fetch_data"
    /\ \E df \in {<<>>} \cup {<<f>> : f \in JobFrames} :
         calc' = [calc EXCEPT !.df = df,
                              !.at = IF df = <<>> THEN "transform_data"
                                     ELSE "save_to_database"]
    /\ UNCHANGED run_vars

\* main: save_to_database(config, df, ticker); what it returns is not read
MainSaveToDatabase ==
    /\ calc.op = "job" /\ calc.at = "save_to_database"
    /\ calc' = [calc EXCEPT
                  !.db = save_to_database(@, calc.df[1], JobTicker).db,
                  !.log = Append(@, "ETL: Data fetched and saved"),
                  !.at = "transform_data"]
    /\ UNCHANGED run_vars

\* main: transformed_df = transform_data(config, ticker): None without raw
\* data, else the frame clean_data and compute_all_indicators give, or
\* their exception
MainTransformData ==
    /\ calc.op = "job" /\ calc.at = "transform_data"
    /\ LET raw_df == fetch_from_database(calc.db, JobTicker, <<>>, <<>>)
       IN  IF raw_df.kind # "frame"
           THEN calc' = [calc EXCEPT !.at = "return"]
           ELSE \E error \in BOOLEAN :
                  calc' = IF error
                          THEN [calc EXCEPT
                                  !.raised = @ \cup {"transform_data"},
                                  !.at = "except"]
                          ELSE [calc EXCEPT
                                  !.transformed_df = <<raw_df.rows>>,
                                  !.log = Append(@,
                                      "ETL: Data transformed with indicators"),
                                  !.at = "run_backtest"]
    /\ UNCHANGED run_vars

\* main: try: summary = run_backtest(...) except Exception: logger.error
main_run_backtest(c, error) ==
    IF error
    THEN [c EXCEPT !.raised = @ \cup {"run_backtest"},
                   !.log = Append(@, "Backtest failed"),
                   !.at = "return"]
    ELSE [c EXCEPT !.log = Append(@, "Backtest completed"), !.at = "return"]

MainRunBacktest ==
    /\ calc.op = "job" /\ calc.at = "run_backtest"
    /\ \E error \in BOOLEAN : calc' = main_run_backtest(calc, error)
    /\ UNCHANGED run_vars

\* run_job: main() has returned
RunJobCompleted ==
    /\ calc.op = "job" /\ calc.at = "return"
    /\ calc' = [calc EXCEPT !.log = Append(@, "ETL job completed successfully"),
                            !.at = "end"]
    /\ UNCHANGED run_vars

\* run_job: except Exception
RunJobFailed ==
    /\ calc.op = "job" /\ calc.at = "except"
    /\ calc' = [calc EXCEPT !.log = Append(@, "ETL job failed"),
                            !.at = "end"]
    /\ UNCHANGED run_vars

\* run_job: logs the end
RunJobEnded ==
    /\ calc.op = "job" /\ calc.at = "end"
    /\ calc' = [calc EXCEPT !.log = Append(@, "ETL job ended"),
                            !.at = "done"]
    /\ UNCHANGED run_vars

JobNext ==
    \/ RunJob \/ MainInitDatabase \/ MainFetchData \/ MainSaveToDatabase
    \/ MainTransformData \/ MainRunBacktest \/ RunJobCompleted
    \/ RunJobFailed \/ RunJobEnded

JobSpec == JobInit /\ [][JobNext]_vars

\* ------------------------------------------------------------------ claims
LastTrade(lg) == lg.trades[Len(lg.trades)]
IssuedClose(orders, possize) ==
    \E k \in DOMAIN orders : IsClose(orders[k]) /\ orders[k].size = -possize

\* C1: the Trade record TradeLogger appends for a position closed by a
\* stop-loss or trend-break close order carries the close_reason that rule
\* set: the reason is still on the strategy when the analyzer reads it.
C1_RecordCarriesReason ==
    [][ (pc = "notify_analyzers" /\ Head(tradespending).isclosed
         /\ Head(tradespending).by = "close")
        => /\ Len(logger'.trades) = Len(logger.trades) + 1
           /\ LastTrade(logger').close_reason = Head(tradespending).reason ]_vars

\* C2: on every bar at or after min_bars with an open position whose
\* stop-loss or trend-break condition holds, next() submits a close order
\* for the whole position, whatever the bar's adx and the daily counter.
C2_ExitEveryBar ==
    [][ (pc = "next" /\ warm(len) /\ broker.size # 0
         /\ IF broker.size > 0
            THEN data.close <= strat'.stop_price \/ Lt(data.close, data'.kijun)
            ELSE data.close >= strat'.stop_price \/ Gt(data.close, data'.kijun))
        => IssuedClose(issued', broker.size) ]_vars

\* C3: entry orders are submitted only while the position is flat, at most
\* one per bar, and an entry order is never pending beside an open position
\* or beside another entry order.
C3_SinglePosition ==
    /\ Count(issued, IsEntry) <= 1
    /\ Count(broker.pending, IsEntry) <= 1
    /\ Count(broker.pending, IsEntry) = 1 => broker.size = 0
    /\ Count(issued, IsEntry) = 1 => Count(broker.pending, IsEntry) = 1

\* after a first position was closed, a flat bar submits an entry order
C3_Witness ==
    /\ pc = "advance" /\ Count(issued, IsEntry) = 1
    /\ Len(logger.trades) >= 1 /\ broker.size = 0


\* next() has run on the current bar
Evaluated == pc = "advance" /\ len >= 1
\* next() has run on the current bar and went past the three gates
Managed ==
    /\ Evaluated /\ warm(len) /\ adx_gate(data.adx) /\ cap_gate(strat, cfg)
TrailOf(s) ==
    IF s.initial_atr = None \/ IsNaN(s.initial_atr) THEN NaN
    ELSE IF broker.size > 0
         THEN s.highest_since_entry - s.initial_atr * trailing_atr_mult
         ELSE s.lowest_since_entry + s.initial_atr * trailing_atr_mult

C5_DailyCap ==
    /\ entries_on_date <= cfg.max_trades_per_day
    /\ Evaluated => /\ strat.today = data.date
                    /\ strat.trades_today = entries_on_date

\* on the second date, after an earlier position was closed, an entry takes
\* the date's count to max_trades_per_day
C5_Witness ==
    /\ Evaluated /\ data.date = 2 /\ Count(issued, IsEntry) = 1
    /\ strat.trades_today = cfg.max_trades_per_day
    /\ Len(logger.trades) >= 1

\* C6: no entry order is submitted on a bar before the data holds min_bars
\* bars.
C6_WarmUp == Count(issued, IsEntry) > 0 => len >= min_bars

\* the last bar of the warm-up, flat, with adx above the threshold and the
\* close above kijun
C6_Witness ==
    /\ Evaluated /\ len = min_bars - 1 /\ broker.size = 0
    /\ Gt(data.adx, adx_threshold) /\ Gt(data.close, data.kijun)
    /\ issued = <<>>

\* C7: an entry order is submitted only on a bar whose adx is a number
\* strictly above adx_threshold; a NaN adx, or one equal to the threshold,
\* blocks the entry.
C7_AdxGate == Count(issued, IsEntry) > 0 => Gt(data.adx, adx_threshold)

C7_Witness ==
    /\ Evaluated /\ warm(len) /\ broker.size = 0 /\ cap_gate(strat, cfg)
    /\ data.adx = adx_threshold /\ Gt(data.close, data.kijun) /\ issued = <<>>

\* C8: in the life of a position at most one take-profit limit order is
\* submitted; it is for floor(0.4 * |position size|) units at tp_price, on a
\* bar whose high (long) or low (short) reached tp_price, and no managed bar
\* that reached tp_price passes without the order having been submitted.
C8_SingleTakeProfit ==
    /\ life.tp <= 1
    /\ \A k \in DOMAIN issued : IsTp(issued[k]) =>
          /\ Abs(issued[k].size) = (4 * Abs(broker.size)) \div 10
          /\ issued[k].size * broker.size < 0
          /\ issued[k].exectype = "Limit"
          /\ issued[k].price = strat.tp_price
          /\ IF broker.size > 0 THEN data.high >= strat.tp_price
                                ELSE data.low <= strat.tp_price
    /\ (Managed /\ broker.size # 0 /\ life.entered
        /\ (4 * Abs(broker.size)) \div 10 > 0
        /\ IF broker.size > 0 THEN data.high >= strat.tp_price
                              ELSE data.low <= strat.tp_price)
       => life.tp = 1

C8_Witness ==
    /\ Managed /\ broker.size > 0 /\ life.entered /\ life.tp = 1
    /\ Count(issued, IsTp) = 0 /\ data.high >= strat.tp_price
    /\ (4 * broker.size) \div 10 > 0

\* C9: breakeven_active is FALSE right after an entry, goes from FALSE to
\* TRUE on the first managed bar whose close is at least 0.4 R in favour,
\* leaving the stop at entry_price unless the trailing stop of the same bar
\* is beyond it, and once TRUE it stays TRUE until the next entry.
C9_BreakevenLatch ==
    /\ Count(issued, IsEntry) = 1 => ~strat.breakeven_active
    /\ (Evaluated /\ before.breakeven_active /\ ~strat.breakeven_active)
       => Count(issued, IsEntry) = 1
    /\ (Managed /\ broker.size # 0 /\ ~before.breakeven_active)
       => IF IF broker.size > 0
             THEN 10 * data.close >= 10 * strat.entry_price + 4 * strat.entry_risk
             ELSE 10 * data.close <= 10 * strat.entry_price - 4 * strat.entry_risk
          THEN /\ strat.breakeven_active
               /\ \/ strat.stop_price = strat.entry_price
                  \/ /\ strat.stop_price = TrailOf(strat)
                     /\ IF broker.size > 0
                        THEN strat.stop_price > strat.entry_price
                        ELSE strat.stop_price < strat.entry_price
          ELSE ~strat.breakeven_active

C9_Witness ==
    /\ Managed /\ broker.size # 0 /\ before.breakeven_active
    /\ strat.breakeven_active /\ strat.stop_price = strat.entry_price

\* C10: on a bar where the close is at or beyond the stop and also on the
\* wrong side of kijun, the open position gets exactly one close order and
\* close_reason is the stop-loss reason.
C10_StopLossFirst ==
    (Evaluated /\ warm(len) /\ broker.size # 0
     /\ IF broker.size > 0
        THEN data.close <= strat.stop_price /\ Lt(data.close, data.kijun)
        ELSE data.close >= strat.stop_price /\ Gt(data.close, data.kijun))
    => /\ Count(issued, IsClose) = 1
       /\ strat.close_reason = IF broker.size > 0 THEN "Stop loss LONG"
                                                  ELSE "Stop loss SHORT"

\* one of the indicator lines i read on the bar is undefined
HasNaN(i) ==
    \E v \in {i.gauss, i.gauss_prev, i.kijun, i.vapi, i.vapi_prev, i.adx,
               i.smma, i.atr, i.swing_low, i.swing_high} : IsNaN(v)

\* C11: on a bar where one of the indicator values next() reads is NaN, no
\* order is submitted (no entry, no take-profit, no close) and the stop and
\* the breakeven flag stay as they were.
C11_UndefinedSkipsBar ==
    (Evaluated /\ \/ IsNaN(data.adx) \/ IsNaN(data.kijun)
                  \/ signals # NoSignals /\ HasNaN(signals[1]))
    => /\ issued = <<>>
       /\ broker.size # 0 => /\ strat.stop_price = before.stop_price
                             /\ strat.breakeven_active = before.breakeven_active

\* C12: a short entry is submitted only on a flat bar where the long setup
\* does not hold, gauss and vapi are both below their previous values,
\* close < smma, close < kijun and swing_high > close; it leaves
\* stop_price = swing_high, entry_risk = swing_high - close and
\* tp_price = close - 0.5 * entry_risk.
C12_ShortEntry ==
    (Evaluated /\ Count(issued, IsEntry) = 1 /\ issued[1].size < 0)
    => LET i == signals[1]
       IN  /\ broker.size = 0
           /\ ~(/\ Gt(i.gauss, i.gauss_prev) /\ Gt(i.vapi, i.vapi_prev)
                /\ Gt(data.close, i.smma) /\ Gt(data.close, i.kijun)
                /\ Lt(i.swing_low, data.close))
           /\ Lt(i.gauss, i.gauss_prev) /\ Lt(i.vapi, i.vapi_prev)
           /\ Lt(data.close, i.smma) /\ Lt(data.close, i.kijun)
           /\ Gt(i.swing_high, data.close)
           /\ strat.stop_price = i.swing_high
           /\ strat.entry_risk = i.swing_high - data.close
           /\ 2 * strat.tp_price = 2 * data.close - strat.entry_risk

\* C13: on a flat bar past the three gates where gauss and vapi are above
\* their previous values, close > smma, close > kijun, swing_low < close and
\* the sizer gives a size > 0, next() submits exactly one order, a market
\* buy of that size, and leaves entry_price = close, stop_price = swing_low,
\* entry_risk = close - swing_low > 0, tp_price = close + 0.75 * entry_risk,
\* breakeven_active = FALSE, highest_since_entry = close and trades_today
\* one higher; in quarter points, close 408 (102) and swing_low 380 (95)
\* give stop 380, risk 28 (7) and tp 429 (107.25).
C13_LongEntry ==
    /\ (Evaluated /\ signals # NoSignals
        /\ Gt(signals[1].gauss, signals[1].gauss_prev)
        /\ Gt(signals[1].vapi, signals[1].vapi_prev)
        /\ Gt(data.close, signals[1].smma) /\ Gt(data.close, signals[1].kijun)
        /\ Lt(signals[1].swing_low, data.close)
        /\ determine_size(cfg, broker.cash, data.close, signals[1].swing_low) > 0)
       => /\ Len(issued) = 1
          /\ issued[1].exectype = "Market"
          /\ issued[1].size =
                determine_size(cfg, broker.cash, data.close, signals[1].swing_low)
          /\ strat.entry_price = data.close
          /\ strat.stop_price = signals[1].swing_low
          /\ strat.entry_risk = data.close - signals[1].swing_low
          /\ strat.entry_risk > 0
          /\ 100 * strat.tp_price =
                100 * strat.entry_price + tp_r_multiple_pct * strat.entry_risk
          /\ ~strat.breakeven_active
          /\ strat.highest_since_entry = data.close
          /\ strat.trades_today = before.trades_today + 1
    /\ LET s == enter_long(StrategyInit, 408, 1, 380, NaN)
       IN  s.stop_price = 380 /\ s.entry_risk = 28 /\ s.tp_price = 429

\* the second long entry of a date
C13_Witness ==
    /\ Evaluated /\ Count(issued, IsEntry) = 1 /\ issued[1].size > 0
    /\ strat.trades_today = 2 /\ broker.pending = issued

\* C14: a market order (entry or close) executes at the close of the bar
\* that decided it, so that the price of the Trade an entry opens is the
\* strategy's entry_price; a take-profit order executes at tp_price.
C14_FillAtDecisionClose ==
    \A k \in DOMAIN filled :
        /\ filled[k].price = filled[k].created
        /\ filled[k].tag = "entry" =>
              /\ filled[k].price = strat.entry_price
              /\ trade.isopen => trade.price = strat.entry_price

\* C15: the trade list only grows at its end; once the notifications of a
\* bar are delivered it holds one record per time the position reached (or
\* crossed) zero, so a take-profit fill that leaves the position open adds
\* none; and the k-th record has trade_id = k.
C15_OneRecordPerClose ==
    [][ /\ Len(logger'.trades) >= Len(logger.trades)
        /\ SubSeq(logger'.trades, 1, Len(logger.trades)) = logger.trades
        /\ pc' \in {"next", "advance"} => Len(logger'.trades) = closes'
        /\ \A k \in DOMAIN logger'.trades : logger'.trades[k].trade_id = k
      ]_vars

\* a take-profit fill has just left the position open: no record
C15_Witness ==
    /\ pc = "next" /\ broker.size # 0 /\ logger.trades = <<>>
    /\ \E k \in DOMAIN filled : filled[k].tag = "tp"

\* C16: when the fill that closes a trade closes all of the recorded size
\* (one exit fill), the record's exit_price is the price of that fill and
\* its pnl is (exit_price - entry_price) * size, negated for a short.
C16_ExitPriceAndPnl ==
    [][ (/\ pc = "notify_analyzers" /\ Head(tradespending).isclosed
         /\ Len(logger'.trades) = Len(logger.trades) + 1
         /\ LastTrade(logger').size = Abs(Head(tradespending).part))
        => LET rec == LastTrade(logger')
               sign == IF Head(tradespending).part < 0 THEN 1 ELSE -1
           IN  /\ rec.exit_price = Head(tradespending).fill
               /\ rec.pnl = (rec.exit_price - rec.entry_price) * rec.size * sign
      ]_vars

\* the rows of frame df strictly before row i, at most swing_order of them
PriorRows(df, i) == {df[j] : j \in Max(1, i - swing_order)..(i - 1)}

\* C17: for two frames that agree on every row before row i,
\* find_swing_high_low gives the same swing_high[i] and swing_low[i]: the
\* largest High and the smallest Low of the swing_order rows before row i
\* (NaN on the first row), whatever rows i, i + 1, ... hold.
C17_NoLookahead ==
    calc.out_a # <<>> =>
      \A i \in 1..Min(Len(calc.a), Len(calc.b)) :
        (\A j \in 1..(i - 1) : calc.a[j] = calc.b[j]) =>
          /\ calc.out_a[1].swing_high[i] = calc.out_b[1].swing_high[i]
          /\ calc.out_a[1].swing_low[i] = calc.out_b[1].swing_low[i]
          /\ calc.out_a[1].swing_high[i] =
                IF i = 1 THEN NaN
                ELSE SetMax({r.High : r \in PriorRows(calc.a, i)})
          /\ calc.out_a[1].swing_low[i] =
                IF i = 1 THEN NaN
                ELSE SetMin({r.Low : r \in PriorRows(calc.a, i)})

\* two frames that agree on row 1 only: row 2 of one sets a new high, and
\* the later rows differ as well; row 1 has left the window of row 4
C17_Witness ==
    /\ calc.out_a # <<>>
    /\ Len(calc.a) = 4 /\ Len(calc.b) = 4
    /\ calc.a[1] = calc.b[1] /\ calc.a[1] = [High |-> 3, Low |-> 1]
    /\ calc.a[2] = [High |-> 4, Low |-> 2] /\ calc.b[2] = [High |-> 3, Low |-> 1]
    /\ calc.a[3] # calc.b[3]
    /\ calc.out_a[1].swing_high[2] = 3 /\ calc.out_b[1].swing_high[2] = 3
    /\ calc.out_a[1].swing_high[3] = 4 /\ calc.out_b[1].swing_high[3] = 3

\* C19: with the risk policy and a contract_multiplier above 0, the sizer
\* returns floor(equity * risk_pct / (|entry - stop| * contract_multiplier)),
\* which is 0 when entry = stop; and calculate_size for entry 100, stop 90,
\* equity 100000, risk_pct 0.009, contract_multiplier 1 returns 90.
C19_RiskSize ==
    /\ (calc.out # <<>> /\ calc.c.fixed_position_size <= 0
        /\ calc.c.contract_multiplier > 0)
       => calc.out[1] =
            IF calc.entry = calc.stop THEN 0
            ELSE (calc.equity * risk_pct_permille) \div
                 (1000 * Abs(calc.entry - calc.stop) * calc.c.contract_multiplier)
    /\ calculate_size(100000, risk_pct_permille, 1, 100, 90) = 90

\* C20: _determine_size returns for every input, and what it returns is a
\* whole number >= 0.
C20_SizerNeverRaises ==
    calc.out # <<>> => calc.out[1] # Raise /\ calc.out[1] >= 0

\* C21: with fixed_position_size > 0 (and an entry price above 0) the size
\* is max(1, floor(fixed_position_size / entry)) whatever the stop, the
\* equity and the contract multiplier; with fixed_position_size <= 0 it is
\* what the risk-percentage sizing gives.
C21_FixedNotional ==
    calc.out # <<>> =>
        IF calc.c.fixed_position_size > 0
        THEN calc.entry > 0 =>
                calc.out[1] = Max(1, calc.c.fixed_position_size \div calc.entry)
        ELSE calc.out[1] = calculate_size(calc.equity, risk_pct_permille,
                                          calc.c.contract_multiplier,
                                          calc.entry, calc.stop)

\* a fixed-notional call whose risk-based size would be another number (100)
C21_Witness ==
    /\ calc.out = <<222>>
    /\ calc.c.fixed_position_size = 20000 /\ calc.c.contract_multiplier = 1
    /\ calc.entry = 90 /\ calc.stop = 100 /\ calc.equity = 100000

\* the sum of the P&L of the winning (positive) or of the losing records
RECURSIVE PnlSum(_, _)
PnlSum(recs, positive) ==
    IF recs = <<>> THEN 0
    ELSE (IF (Head(recs).pnl > 0) = positive /\ Head(recs).pnl # 0
          THEN Head(recs).pnl ELSE 0) + PnlSum(Tail(recs), positive)

\* C22: the summary's profit_factor is +infinity when no closed trade of the
\* run lost money (also when none was closed), and otherwise the sum of the
\* winning P&L over the absolute sum of the losing P&L; with no closed
\* trade percent_profitable is 0.
C22_ProfitFactor ==
    calc.summary # <<>> =>
        LET recs == calc.trade_logger.trades
            losers == {k \in DOMAIN recs : recs[k].pnl < 0}
            s == calc.summary[1]
        IN  /\ losers = {} => s.profit_factor = Infinity
            /\ losers # {} =>
                   /\ s.profit_factor.den # 0
                   /\ SameRatio(s.profit_factor,
                                Ratio(PnlSum(recs, TRUE), Abs(PnlSum(recs, FALSE))))
            /\ s.total_trades = 0 => s.percent_profitable = Ratio(0, 1)

\* a run with a winner and two losers: 8 / 12
C22_Witness ==
    /\ calc.summary # <<>> /\ calc.pnls = <<8, -4, -8>>
    /\ calc.summary[1].profit_factor = Ratio(8, 12)

\* C23: total_trades is the number of Trade records, and with at least one
\* record percent_profitable is 100 x (records with is_winner) / total_trades.
C23_SummaryAgreesWithTrades ==
    calc.summary # <<>> =>
        LET recs == calc.trade_logger.trades
            winners == {k \in DOMAIN recs : recs[k].is_winner}
            s == calc.summary[1]
        IN  /\ s.total_trades = Len(recs)
            /\ s.total_trades > 0 =>
                   SameRatio(s.percent_profitable,
                             Ratio(100 * Cardinality(winners), s.total_trades))

\* whether the frame's Close column is constant, and its value
ConstantClose(df, v) == Len(df) >= 1 /\ \A i \in 1..Len(df) : df[i].Close = v

ExactMultiples(v, n) == \A k \in 1..n : fround(k * v, 1) = k * v

C25_LongPeriodAllUndefined ==
    (calc.out # <<>> /\ calc.period >= Len(calc.df)) =>
        \A i \in 1..Len(calc.df) :
            /\ IsNaN(calc.out[1].kijun[i])
            /\ IsNaN(calc.out[1].smma[i])
            /\ IsNaN(calc.out[1].swing_high[i])
            /\ IsNaN(calc.out[1].swing_low[i])

\* C26: compute_all_indicators returns for every configuration of positive
\* periods, and in its result every derived column is the one computed
\* with its own configured window: atr over atr_period, adx over
\* adx_period, gauss over gaussian_period, and so on.
C26_OwnWindows ==
    /\ calc.at # "raised"
    /\ calc.at = "done" =>
          LET df == calc.df
              c == calc.config
          IN  /\ df.atr = ta_atr(c.atr_period)
              /\ df.adx = ta_adx(c.adx_period).column
              /\ df.gauss = ewm("ema3(Close)", c.gaussian_period)
              /\ df.vapi = ewm("Close*Volume/Volume", c.vapi_period)
              /\ df.kijun = <<compute_kijun_sen(df.rows, c.kijun_period)>>
              /\ df.smma = <<compute_smma(df.rows, c.smma_period)>>
              /\ df.swing_high = <<find_swing_high_low(df.rows, c.swing_order).swing_high>>
              /\ df.swing_low = <<find_swing_high_low(df.rows, c.swing_order).swing_low>>

\* C27: a run whose input frame lacks a required column ends with an error
\* before cerebro runs: it simulates no bar, returns no summary, and writes
\* neither the summary file nor trade records.
C27_MissingColumnAborts ==
    \A r \in Runs :
        calc.columns[r] # required =>
            /\ calc.at[r] \in {"save_input", "validate", "raised"}
            /\ calc.summary[r] = Absent /\ calc.returned[r] = Absent
            /\ calc.trade_logger[r] = <<>>
            /\ calc.wrote[r] \subseteq {"backtest_input"}

\* a run on a frame without atr (whose trades would close with 4 and -8)
\* has raised, next to a run on a complete frame that has returned
C27_Witness ==
    /\ calc.columns[1] = required \ {"atr"} /\ calc.df[1] = <<4, -8>>
    /\ calc.at[1] = "raised"
    /\ calc.columns[2] = required /\ calc.at[2] = "done"

\* how often the row r occurs in the frame df
Occurrences(df, r) == Cardinality({i \in DOMAIN df : df[i] = r})

\* C28: every row clean_data returns has its six values, Volume > 0 and
\* High > Low; the rows are in non-decreasing Date order; and every row
\* returned is a row of the input, no more often than there.
C28_CleanRows ==
    calc.out # <<>> =>
        LET out == calc.out[1]
        IN  /\ \A i \in DOMAIN out :
                  /\ ~IsNaN(out[i].Date) /\ ~IsNaN(out[i].Open)
                  /\ ~IsNaN(out[i].High) /\ ~IsNaN(out[i].Low)
                  /\ ~IsNaN(out[i].Close) /\ ~IsNaN(out[i].Volume)
                  /\ out[i].Volume > 0
                  /\ out[i].High > out[i].Low
                  /\ Occurrences(out, out[i]) <= Occurrences(calc.df, out[i])
            /\ \A i \in 1..(Len(out) - 1) : out[i].Date <= out[i + 1].Date

\* the database a call found
DbBefore(k) == calc.calls[k].before

\* whether every timestamp of the frame's rows is stored in the table
AllStored(df, table) ==
    \A i \in DOMAIN df.rows :
        \E k \in DOMAIN table : table[k].date = strftime(df.rows[i].Date)

\* C29: a save of a frame (with rows) whose timestamps are all stored
\* returns True and leaves the table as it was; and a save repeated at once
\* with the same frame and ticker returns the same and leaves the table as
\* the first save left it.
C29_SaveIgnoresDuplicates ==
    \A k \in DOMAIN calc.calls :
        LET c == calc.calls[k]
        IN  c.fn = "save" =>
              /\ (/\ c.df.has_date /\ c.df.rows # <<>>
                  /\ AllStored(c.df, DbBefore(k).table)) =>
                     c.ret = TRUE /\ c.db = DbBefore(k)
              /\ (/\ k > 1 /\ calc.calls[k - 1].fn = "save"
                  /\ calc.calls[k - 1].df = c.df
                  /\ calc.calls[k - 1].ticker = c.ticker) =>
                     c.ret = calc.calls[k - 1].ret /\ c.db = DbBefore(k)

\* two rows saved for KC=F, then saved again with another close for the
\* first: the table keeps the rows of the first save
C29_Witness ==
    /\ Len(calc.calls) = 2
    /\ calc.calls[1].fn = "save" /\ calc.calls[1].ticker = "KC=F"
    /\ calc.calls[1].before = init_database(NoDatabase)
    /\ calc.calls[1].df.rows =
          <<[Date |-> <<1, 0>>, Close |-> 3], [Date |-> <<2, 0>>, Close |-> 3]>>
    /\ calc.calls[2].fn = "save" /\ calc.calls[2].ticker = "KC=F"
    /\ calc.calls[2].df.rows =
          <<[Date |-> <<1, 0>>, Close |-> 4], [Date |-> <<2, 0>>, Close |-> 3]>>
    /\ calc.calls[2].ret = TRUE
    /\ calc.db.table = <<[date |-> 1, close |-> 3, ticker |-> "KC=F"],
                         [date |-> 2, close |-> 3, ticker |-> "KC=F"]>>

\* C30: when save_to_database(df, T) has returned True (df with whole-second
\* timestamps, each once, and no row of T stored before), the
\* fetch_from_database(T) that follows returns a frame with exactly one row
\* for every timestamp of df, carrying df's value, whatever rows of other
\* tickers were stored before; and in an initialised database a fetch for a
\* ticker without stored rows returns None.
C30_RoundTrip ==
    \A k \in DOMAIN calc.calls :
        LET c == calc.calls[k]
        IN  (c.fn = "fetch" /\ c.start_date = <<>> /\ c.end_date = <<>>) =>
              /\ (/\ k > 1 /\ calc.calls[k - 1].fn = "save"
                  /\ calc.calls[k - 1].ret = TRUE
                  /\ calc.calls[k - 1].ticker = c.ticker
                  /\ \A j \in DOMAIN DbBefore(k - 1).table :
                        DbBefore(k - 1).table[j].ticker # c.ticker
                  /\ \A i, j \in DOMAIN calc.calls[k - 1].df.rows :
                        /\ calc.calls[k - 1].df.rows[i].Date[2] = 0
                        /\ i # j => calc.calls[k - 1].df.rows[i].Date #
                                     calc.calls[k - 1].df.rows[j].Date) =>
                     /\ c.ret.kind = "frame"
                     /\ \A i \in DOMAIN calc.calls[k - 1].df.rows :
                          LET row == calc.calls[k - 1].df.rows[i]
                              got == {j \in DOMAIN c.ret.rows :
                                        c.ret.rows[j].Date = row.Date}
                          IN  /\ Cardinality(got) = 1
                              /\ \A j \in got : c.ret.rows[j].Close = row.Close
              /\ (/\ DbBefore(k).created
                  /\ \A j \in DOMAIN DbBefore(k).table :
                        DbBefore(k).table[j].ticker # c.ticker) =>
                     c.ret.kind = "None"

\* C31: save_to_database of an empty frame, or of a frame without the column
\* Date, returns False and leaves the table as it found it.
C31_SaveRefusesBadFrame ==
    \A k \in DOMAIN calc.calls :
        LET c == calc.calls[k]
        IN  (c.fn = "save" /\ (c.df.rows = <<>> \/ ~c.df.has_date)) =>
               c.ret = FALSE /\ c.db = DbBefore(k)

\* a frame with a row but no column Date is saved to an initialised
\* database that holds a row, and an empty frame after it
C31_Witness ==
    /\ Len(calc.calls) = 2
    /\ calc.calls[1].fn = "save" /\ ~calc.calls[1].df.has_date
    /\ calc.calls[1].df.rows # <<>>
    /\ calc.calls[1].before.created /\ calc.calls[1].before.table # <<>>
    /\ calc.calls[1].ret = FALSE
    /\ calc.calls[2].fn = "save" /\ calc.calls[2].df.rows = <<>>
    /\ calc.calls[2].ret = FALSE
    /\ calc.db = calc.calls[1].before

\* the exit orders of the strategy: the take-profit limit order and the
\* market order of close()
IsExit(o) == IsTp(o) \/ IsClose(o)
\* the sizes of a sequence of orders or fills, and of those pending exits
SizesOf(seq) == [k \in DOMAIN seq |-> seq[k].size]
PendingExits == SelectSeq(broker.pending, IsExit)
\* the position the fills of this bar found, and the position after the
\* first k of them
SizeBeforeFills == broker.size - SumSeq(SizesOf(filled))
SizeAfterFill(k) == SizeBeforeFills + SumSeq(SizesOf(SubSeq(filled, 1, k)))

\* C32: beside an open position the pending exit orders (take-profit limit
\* and close) are for no more units in total than the position holds, and
\* no fill of an exit order carries a long position below zero or a short
\* position above zero.
C32_ExitsWithinPosition ==
    /\ broker.size # 0 =>
          Abs(SumSeq(SizesOf(PendingExits))) <= Abs(broker.size)
    /\ \A k \in DOMAIN filled :
          (IsExit(filled[k]) /\ SizeAfterFill(k - 1) # 0) =>
              SizeAfterFill(k - 1) * SizeAfterFill(k) >= 0

\* C33: while the position is flat no exit order (take-profit limit or
\* close) is pending at the broker, and every trade that opens is opened by
\* the fill of an entry order.
C33_NoExitOutlivesPosition ==
    /\ broker.size = 0 => PendingExits = <<>>
    /\ \A k \in DOMAIN tradespending :
          tradespending[k].justopened => tradespending[k].by = "entry"

\* C34: a bar evaluated with an open position whose close_reason is set
\* submits no close order and leaves close_reason as it is; no bar submits
\* more than one close order; and when the close of a position is notified
\* to the strategy, the close_reason set for it is there.
C34_ReasonSetOnce ==
    [][ /\ (pc = "next" /\ broker.size # 0 /\ strat.close_reason # "") =>
              /\ Count(issued', IsClose) = 0
              /\ strat'.close_reason = strat.close_reason
        /\ Count(issued', IsClose) <= 1
        /\ (pc = "notify_strategy" /\ Head(tradespending).isclosed) =>
              strat.close_reason # ""
      ]_vars

\* the position sizes the partial size is computed for
PositionSizes == 1..64

\* C35: floor(0.4 * n) is below n for every position size n, and 0 for
\* n <= 2; a take-profit order submitted on a bar is for at least one unit
\* and fewer than the position holds, none is submitted for a position of
\* one or two units, and the fill of a take-profit order never brings an
\* open position to zero.
C35_PartialBelowPosition ==
    /\ \A n \in PositionSizes :
          tp_size(n) < n /\ (n <= 2 => tp_size(n) = 0)
    /\ \A k \in DOMAIN issued : IsTp(issued[k]) =>
          /\ Abs(issued[k].size) = tp_size(broker.size)
          /\ Abs(issued[k].size) > 0
          /\ Abs(issued[k].size) < Abs(broker.size)
    /\ (broker.size # 0 /\ Abs(broker.size) <= 2) => Count(issued, IsTp) = 0
    /\ \A k \in DOMAIN filled :
          (IsTp(filled[k]) /\ SizeAfterFill(k - 1) # 0) => SizeAfterFill(k) # 0

\* C36: no step taken while a position is open changes entry_price,
\* entry_risk, initial_atr or tp_price; the evaluation of a bar with an open
\* position leaves entry_order alone as well, and the stop it leaves is the
\* stop it found, entry_price (breakeven) or the extreme price less (long)
\* or plus (short) trailing_atr_mult times the ATR captured at entry.
C36_EntryFieldsFrozen ==
    [][ /\ broker.size # 0 =>
              /\ strat'.entry_price = strat.entry_price
              /\ strat'.entry_risk = strat.entry_risk
              /\ strat'.initial_atr = strat.initial_atr
              /\ strat'.tp_price = strat.tp_price
        /\ (pc = "next" /\ broker.size # 0) =>
              /\ strat'.entry_order = strat.entry_order
              /\ strat'.stop_price \in
                    {strat.stop_price, strat.entry_price, TrailOf(strat')}
      ]_vars

\* a long position entered on a bar without ATR is managed on a bar that
\* has one: the trailing stop of the bar's own ATR would lie above the
\* stop, and the stop is not moved to it
C36_Witness ==
    /\ Managed /\ broker.size > 0 /\ life.entered
    /\ IsNaN(strat.initial_atr)
    /\ \A i \in HeldSignals :
          /\ ~IsNaN(i.atr)
          /\ strat.highest_since_entry - i.atr * trailing_atr_mult
                > strat.stop_price
    /\ strat.stop_price \in {before.stop_price, strat.entry_price}

\* the messages of the log
Logged(message) == \E k \in DOMAIN calc.log : calc.log[k] = message

\* C37: when run_job has logged 'ETL job completed successfully', no call
\* of main has raised, run_backtest included; and when run_backtest has
\* raised, run_job logs 'ETL job failed'.
C37_SuccessMeansNoError ==
    /\ Logged("ETL job completed successfully") => calc.raised = {}
    /\ (calc.at = "done" /\ "run_backtest" \in calc.raised) =>
           Logged("ETL job failed")

\* C18: of two concurrent runs on different inputs, each returns the
\* summary of its own input and, when it returns, the summary file and (if
\* it closed a trade) the trades file it has written hold what its own
\* input gives, under every interleaving.
C18_RunsDoNotInterfere ==
    \A r \in Runs :
        calc.at[r] = "done" =>
          /\ calc.returned[r] = <<summary_of(calc.df[r])>>
          /\ calc.left[r][1].backtest_summary = <<summary_of(calc.df[r])>>
          /\ calc.df[r] # <<>> =>
                calc.left[r][1].trades_detailed = <<calc.df[r]>>

=============================================================================
